---- MODULE Spec2Model ----
(***************************************************************************)
(* Verification model of openpond-code: the Frame Decoder (consumeStream   *)
(* in src/src/stream.ts), the Session Driver (ChatWorker, chat-worker      *)
(* source in src/unnamed/part_003, driven by src/src/child.ts) and the     *)
(* Tool Sandbox (executeLocalTool in src/src/tools.ts).                    *)
(*                                                                         *)
(* Bytes and characters are one-character strings.  "NL" is the newline,   *)
(* "SP" a blank, "q" the double quote.  "E1" "E2" are the two bytes of a   *)
(* two-byte UTF-8 character that decodes to "EA"; "FFFD" is the            *)
(* replacement character.  The capital letters C D K I R M U stand for     *)
(* whole JSON objects of a data frame (see ObjLex) and "N" for a JSON      *)
(* number.                                                                 *)
(***************************************************************************)
EXTENDS Integers, Sequences, FiniteSets, TLC

VARIABLES
  \* ---- Frame Decoder: one call of consumeStream -------------------------
  stream,         \* the bytes the response body will deliver
  hasBody,        \* response.body is present
  pos,            \* number of bytes the reader has delivered so far
  decPend,        \* TextDecoder holds a lead byte of an unfinished character
  remainder,      \* `remainder`: the buffered partial line
  lines,          \* `lines`: lines of the current chunk not yet handled
  handled,        \* the lines the for-loop body has run on, in order
  events,         \* the callbacks fired so far, in order
  status,         \* "init" | "reading" | "done" | "failed" | "stopped"
  error,          \* message of the rejection when status = "failed"
  stopRequested,  \* what callbacks.shouldStop() returns now
  cancelled,      \* reader.cancel() was called
  splitMid,       \* some read ended inside a line (remainder was non-empty)
  \* ---- Session Driver: one ChatWorker in one worker process --------------
  items,          \* this.items
  conversationId, \* this.conversationId ("null" or an id)
  appId,          \* this.appId ("null" or an id)
  chatMode,       \* this.chatMode: "builder" | "general"
  executionMode,  \* this.config.executionMode ?? "local"
  tokenReady,     \* this.loginState.status = "ready" (token() is non-null)
  streamingText,  \* this.streamingText
  lineOut,        \* the lines events.onLine received during the last step
  stack,          \* per handleInput call: its chain of pending async calls
  started,        \* number of input messages the worker has received
  delivered,      \* decoded events the response streams have delivered so far
  cfgConversationId, \* the conversationId of the saved configuration
  lastEvent,      \* the decoded event the last step delivered, else NoEvent
  \* ---- Tool Sandbox: executeLocalTool in the worker process ---------------
  files,          \* the regular files on disk: absolute path -> bytes or NoFile
  dirs,           \* the directories that exist below the workspace root
  readSet,        \* ctx.readSet (this.readSet of the ChatWorker)
  manifest,       \* allowedToolsCache entry: "none" | "pending" | "ok" | "failed"
  manifestTools,  \* the tool names the manifest endpoint lists
  fetches,        \* number of fetchToolManifest calls made so far
  waiting,        \* per caller: the call awaiting getAllowedTools, or NoCall
  lastCall,       \* the call the last executeLocalTool step settled, or NoCall
  result,         \* what that executeLocalTool call settled with
  effects,        \* what that call did outside memory: subset of {"fs", "spawn"}
  written,        \* per path: content of the last successful write_file on it
                  \* when no later call touched the path, else NoWrite
  \* ---- ChatWorker device login ---------------------------------------------
  loginStatus,    \* this.loginState.status: "idle" | "pending" | "ready" | "error"
  deviceCode,     \* this.loginState.deviceCode ("" when empty or absent)
  pollingTimer,   \* the timeout set by scheduleLoginPoll has not fired yet
  cfgToken,       \* the saved configuration holds a token
  cfgDeviceCode,  \* the saved configuration holds a device code
  polls,          \* the pollLogin calls awaiting pollDeviceLogin: "manual", "timer"
  \* ---- one user turn as a chain of nested response streams -----------------
  chain,          \* per open stream, innermost last: events it has delivered
  chainDeep,      \* streams are open below the ones chain holds
  \* ---- IPC line reader: one socket with attachJsonLineReader ----------------
  ipcStream,      \* the bytes the peer writes to the socket
  ipcPos,         \* number of bytes the "data" events have delivered so far
  ipcBuffer,      \* `buffer`
  ipcMessages,    \* the messages handed to onMessage, in order
  \* ---- Supervisor (Manager) --------------------------------------------------
  tabs,           \* `tabs`: the tab ids, in order
  activeTabId,    \* `activeTabId` (NoTab for null)
  childSockets,   \* childSocketsRef: the tab ids that have a socket bound
  children,       \* childrenRef: the tab ids that have a ChildInfo
  running,        \* the tab ids whose worker process is alive
  sockOut,        \* the socket writes of the last step: [tab, text]
  submitted       \* the value onSubmit received in the last step, else NoSubmit

decVars == <<stream, hasBody, pos, decPend, remainder, lines, handled, events,
             status, error, stopRequested, cancelled, splitMid>>

workerVars == <<items, conversationId, appId, chatMode, executionMode, tokenReady,
                streamingText, lineOut, stack, started, delivered,
                cfgConversationId, lastEvent>>

toolVars == <<files, dirs, readSet, manifest, manifestTools, fetches, waiting,
              lastCall, result, effects, written>>

VARIABLES
  \* deployTool: the lines `git status --porcelain -uall` printed and its exit code
  gitLines, gitExit,
  \* the changed paths fs.readFile cannot read
  unreadable,
  \* where the deploy call stands: idle, commit, deploy, done, failed
  deployPc,
  \* the files collectChangedFiles returned
  snapshot,
  \* the requests sent to the API so far, in order
  requests,
  \* the message of the error deployTool threw
  deployErr

deployVars == <<gitLines, gitExit, unreadable, deployPc, snapshot, requests, deployErr>>

VARIABLES
  \* ~/.openpond/cache.json: the apps and the tools entry of the client's key
  cacheFile,
  \* Date.now(), and the client's cacheTtlMs
  clock, ttl,
  \* per list kind, the fetch...WithCache call in flight
  fetchSt

cacheVars == <<cacheFile, clock, ttl, fetchSt>>

VARIABLES
  \* handleCommand: where the command in flight waits (idle, create, persist)
  cmdPc,
  \* the words of the last command handled, and a bit flipped by every command
  cmdWords, cmdTick,
  \* the number of turns submitted when the last reset was made, else -1
  resetAt

cmdVars == <<cmdPc, cmdWords, cmdTick, resetAt>>

VARIABLES
  \* ~/.openpond/config.json: per key its value, "undef" when the key is absent
  cfgFile,
  \* per worker process: this.config, the persistConfig call in flight (off,
  \* idle, save, load, write), its overrides' keys, and what saveGlobalConfig read
  wMem, wPc, wOver, wRead,
  \* per key, the worker whose persist of that key was written last
  cfgWriter

shareVars == <<cfgFile, wMem, wPc, wOver, wRead, cfgWriter>>

VARIABLE
  \* consumeStream: the lines (by their number) at which the items callback threw
  cbErrors

cbVars == <<cbErrors>>

extVars == <<deployVars, cacheVars, cmdVars, shareVars, cbVars>>

loginVars == <<loginStatus, deviceCode, pollingTimer, cfgToken, cfgDeviceCode, polls>>

chainVars == <<chain, chainDeep>>

ipcVars == <<ipcStream, ipcPos, ipcBuffer, ipcMessages>>

mgrVars == <<tabs, activeTabId, childSockets, children, running, sockOut, submitted>>

auxVars == <<loginVars, chainVars, ipcVars, mgrVars, extVars>>

vars == <<decVars, workerVars, toolVars, auxVars>>

\* ---- bounds -------------------------------------------------------------
MaxLines == 2
MaxInputs == 2
MaxEvents == 3

\* events one response stream delivers at most (every stream is finite)
MaxStreamEvents == 2

\* nested response streams the model holds exactly; deeper ones are forgotten
MaxDepth == 2

\* complete lines the peer writes to one IPC socket at most
MaxIpcLines == 2

\* tabs the Supervisor spawns at most
MaxTabs == 3

\* ---- generic helpers ----------------------------------------------------
Last(s) == s[Len(s)]
Front(s) == SubSeq(s, 1, Len(s) - 1)

\* ---- TextDecoder.decode(value, {stream: true}) --------------------------
\* One byte through the UTF-8 decoder; pend = a lead byte is held back.
DecodeByte(pend, b) ==
  IF pend
  THEN IF b = "E2" THEN [out |-> <<"EA">>, pend |-> FALSE]
       ELSE IF b = "E1" THEN [out |-> <<"FFFD">>, pend |-> TRUE]
       ELSE [out |-> <<"FFFD", b>>, pend |-> FALSE]
  ELSE IF b = "E1" THEN [out |-> <<>>, pend |-> TRUE]
       ELSE IF b = "E2" THEN [out |-> <<"FFFD">>, pend |-> FALSE]
       ELSE [out |-> <<b>>, pend |-> FALSE]

RECURSIVE DecodeChunk(_, _)
DecodeChunk(pend, bytes) ==
  IF bytes = <<>> THEN [out |-> <<>>, pend |-> pend]
  ELSE LET d == DecodeByte(pend, Head(bytes))
           r == DecodeChunk(d.pend, Tail(bytes))
       IN [out |-> d.out \o r.out, pend |-> r.pend]

\* ---- textChunk.split("\n") ----------------------------------------------
RECURSIVE SplitAcc(_, _)
SplitAcc(text, cur) ==
  IF text = <<>> THEN <<cur>>
  ELSE IF Head(text) = "NL" THEN <<cur>> \o SplitAcc(Tail(text), <<>>)
  ELSE SplitAcc(Tail(text), Append(cur, Head(text)))

SplitNL(text) == SplitAcc(text, <<>>)

\* remainder = lines.pop() || ""
NextRemainder_Dropped(pieces) == <<>>
NextRemainder(pieces) == Last(pieces)

\* the lines left in `lines` after the pop
CompleteLines_Early(pieces) == pieces
CompleteLines(pieces) == Front(pieces)

\* ---- String.prototype.trim ----------------------------------------------
RECURSIVE TrimLeft(_)
TrimLeft(s) == IF s # <<>> /\ Head(s) = "SP" THEN TrimLeft(Tail(s)) ELSE s

RECURSIVE TrimRight(_)
TrimRight(s) == IF s # <<>> /\ Last(s) = "SP" THEN TrimRight(Front(s)) ELSE s

Trim(s) == TrimRight(TrimLeft(s))

\* line.startsWith("<tag>:") and line.slice(2).trim()
StartsWith(line, tag) == Len(line) >= 2 /\ line[1] = tag /\ line[2] = ":"
Payload(line) == Trim(SubSeq(line, 3, Len(line)))

\* ---- JSON.parse on the payload ------------------------------------------
StrChars == {"a", "b", "SP", "EA", "FFFD"}
ObjLex == {"C", "D", "K", "I", "R", "M", "U"}
ElemLex == ObjLex \cup {"N"}

AllIn(s, S) == \A i \in 1..Len(s) : s[i] \in S
Inner(p) == SubSeq(p, 2, Len(p) - 1)

IsStringLit(p) == Len(p) >= 2 /\ p[1] = "q" /\ Last(p) = "q" /\ AllIn(Inner(p), StrChars)
IsArrayLit(p) == Len(p) >= 2 /\ p[1] = "[" /\ Last(p) = "]" /\ AllIn(Inner(p), ElemLex)
IsDataObj(p) == Len(p) >= 2 /\ p[1] = "{" /\ Last(p) = "}" /\ AllIn(Inner(p), ElemLex)
IsBare(p) == Len(p) = 1 /\ p[1] \in ElemLex

\* [ok |-> FALSE] is the SyntaxError JSON.parse throws.
ParseJSON(p) ==
  IF IsStringLit(p) THEN [ok |-> TRUE, kind |-> "string", val |-> Inner(p)]
  ELSE IF IsArrayLit(p) THEN [ok |-> TRUE, kind |-> "array", val |-> Inner(p)]
  ELSE IF IsDataObj(p) THEN [ok |-> TRUE, kind |-> "data", val |-> Inner(p)]
  ELSE IF IsBare(p) THEN [ok |-> TRUE, kind |-> "bare", val |-> p]
  ELSE [ok |-> FALSE, kind |-> "error", val |-> <<>>]

\* const frames = Array.isArray(raw) ? raw : raw.data is an array ? raw.data : [raw]
FramesOf(raw) == IF raw.kind = "string" THEN <<>> ELSE raw.val

\* ---- normalizeDataFrames ------------------------------------------------
ConvIdOf(lex) == IF lex = "C" THEN <<"c1">> ELSE IF lex = "D" THEN <<"c2">> ELSE <<>>

RECURSIVE FrameConversationId(_, _)
FrameConversationId(frames, cid) ==
  IF frames = <<>> THEN cid
  ELSE FrameConversationId(Tail(frames),
         IF ConvIdOf(Head(frames)) # <<>> THEN ConvIdOf(Head(frames)) ELSE cid)

ItemsOfLex(lex) ==
  IF lex = "I" THEN <<"i1">>
  ELSE IF lex = "R" THEN <<"i2", "i3">>
  ELSE IF lex = "M" THEN <<"m">>
  ELSE <<>>

RECURSIVE FrameItems(_)
FrameItems(frames) ==
  IF frames = <<>> THEN <<>> ELSE ItemsOfLex(Head(frames)) \o FrameItems(Tail(frames))

normalizeDataFrames(raw) ==
  [conversationId |-> FrameConversationId(FramesOf(raw), <<>>),
   items |-> FrameItems(FramesOf(raw))]

\* ---- extractUsage -------------------------------------------------------
extractUsage(raw) == \E i \in 1..Len(FramesOf(raw)) : FramesOf(raw)[i] = "U"

\* ---- the body of `for (const line of lines)` ----------------------------
Ev(kind, val) == [kind |-> kind, val |-> val]

\* ev: callbacks fired; thrown: the body throws out of consumeStream with msg;
\* poll: control reaches the stopIfNeeded() at the end of the body.
Res(ev, thrown, msg, poll) == [ev |-> ev, thrown |-> thrown, msg |-> msg, poll |-> poll]
Skip == Res(<<>>, FALSE, <<>>, FALSE)
SyntaxError == Res(<<>>, TRUE, <<"SyntaxError">>, FALSE)

\* `0:` and `g:` lines: JSON.parse is not guarded.
HandleDelta(kind, payload) ==
  IF payload = <<>> THEN Skip
  ELSE LET v == ParseJSON(payload) IN
       IF ~v.ok THEN SyntaxError
       ELSE IF v.kind = "string" THEN Res(<<Ev(kind, v.val)>>, FALSE, <<>>, FALSE)
       ELSE Skip

\* try { ... } catch { } : whatever the body throws is swallowed; the callbacks
\* it fired before stay fired.  poll: what follows the catch reaches stopIfNeeded().
Swallow(r, poll) == Res(r.ev, FALSE, <<>>, poll)

\* `3:` lines: `throw new Error(message)` for a string payload sits inside the
\* try, like JSON.parse; `continue` follows the catch.
Handle3Body(payload) ==
  LET v == ParseJSON(payload) IN
  IF ~v.ok THEN SyntaxError
  ELSE IF v.kind = "string" THEN Res(<<>>, TRUE, v.val, FALSE)
  ELSE Skip

Handle3(payload) == IF payload = <<>> THEN Skip ELSE Swallow(Handle3Body(payload), FALSE)

\* `2:` lines: onUsage, onConversationId, onItems in this order, all inside the
\* try; the catch falls through to the stopIfNeeded() that ends the loop body.
Handle2Body(payload) ==
  LET v == ParseJSON(payload) IN
  IF ~v.ok THEN SyntaxError
  ELSE LET n == normalizeDataFrames(v) IN
       Res((IF extractUsage(v) THEN <<Ev("usage", <<>>)>> ELSE <<>>)
           \o (IF n.conversationId # <<>>
                 THEN <<Ev("conversationId", n.conversationId)>> ELSE <<>>)
           \o (IF n.items # <<>> THEN <<Ev("items", n.items)>> ELSE <<>>),
           FALSE, <<>>, TRUE)

Handle2_NoCatch(payload) == IF payload = <<>> THEN Skip ELSE Handle2Body(payload)
Handle2(payload) == IF payload = <<>> THEN Skip ELSE Swallow(Handle2Body(payload), TRUE)

LineResult(line) ==
  IF line = <<>> THEN Skip
  ELSE IF StartsWith(line, "0") THEN HandleDelta("text", Payload(line))
  ELSE IF StartsWith(line, "g") THEN HandleDelta("reasoning", Payload(line))
  ELSE IF StartsWith(line, "d") THEN Skip
  ELSE IF StartsWith(line, "3") THEN Handle3(Payload(line))
  ELSE IF StartsWith(line, "2") THEN Handle2(Payload(line))
  ELSE Res(<<>>, FALSE, <<>>, TRUE)

\* ---- the inputs: streams of at most MaxLines lines and a partial tail ----
LineSet ==
  { <<"0", ":", "q", "a", "q">>,            \* 0:"a"
    <<"0", ":", "q", "E1", "E2", "q">>,     \* 0:"<two-byte char>"
    <<"0", ":", "q", "a">>,                 \* 0:"a     (malformed)
    <<"0", ":", "N">>,                      \* 0:1      (not a string)
    <<"g", ":", "SP", "q", "b", "q">>,      \* g: "b"
    <<"d", ":", "N">>,                      \* d:1
    <<"3", ":", "q", "a", "q">>,            \* 3:"a"    (error frame)
    <<"3", ":", "q">>,                      \* 3:"      (malformed)
    <<"2", ":", "[", "C", "I", "]">>,       \* 2:[conversation-created, response_item]
    <<"2", ":", "[", "C", "D", "]">>,       \* 2:[conversation-created, conversation-created]
    <<"2", ":", "[", "I">>,                 \* 2:[...   (malformed)
    <<"2", ":", "{", "U", "R", "}">>,       \* 2:{"data":[usage, response_items]}
    <<"x">>,                                \* a line of no known tag
    <<>> }                                  \* an empty line

TailSet == { <<>>, <<"0", ":", "q", "b">> }

RECURSIVE StreamsOf(_)
StreamsOf(n) ==
  IF n = 0 THEN {<<>>}
  ELSE LET S == StreamsOf(n - 1) IN S \cup { s \o l \o <<"NL">> : s \in S, l \in LineSet }

Streams == { s \o t : s \in StreamsOf(MaxLines), t \in TailSet }

\* ---- Tool Sandbox at rest (the sandbox itself is modelled further down) ----
\* Absolute paths are sequences of segments; the workspace root (process.cwd())
\* is /w.  The files the model follows: /w/f, /w/d/f and, outside the root, /x.
Root == <<"w">>
AbsFiles == { <<"w", "f">>, <<"w", "d", "f">>, <<"x">> }
Callers == {"t1", "t2"}
\* placeholders of the same shape as the values they stand in for
NoFile == <<"NoFile">>
NoWrite == <<"NoWrite">>
NoCall == [name |-> "none", path |-> <<>>, content |-> <<>>, patch |-> <<>>]
NoResult == [ok |-> TRUE, error |-> "none", output |-> "NoResult", thrown |-> FALSE]

InitToolsIdle ==
  /\ files = [p \in AbsFiles |-> NoFile]
  /\ dirs = {}
  /\ readSet = {}
  /\ manifest = "none"
  /\ manifestTools = {}
  /\ fetches = 0
  /\ waiting = [c \in Callers |-> NoCall]
  /\ lastCall = NoCall
  /\ result = NoResult
  /\ effects = {}
  /\ written = [p \in AbsFiles |-> NoWrite]

\* ---- consumeStream -------------------------------------------------------
\* no decoded event
NoEvent == [kind |-> "none", val |-> <<>>]

\* ---- login, turn chain, IPC reader and Supervisor at rest ------------------
NoTab == [mode |-> "none", n |-> 0]

NoSubmit == <<"NoSubmit">>

InitLoginIdle ==
  /\ loginStatus = "idle" /\ deviceCode = "" /\ pollingTimer = FALSE
  /\ cfgToken = FALSE /\ cfgDeviceCode = FALSE /\ polls = {}

InitChainIdle == chain = <<>> /\ chainDeep = FALSE

InitIpcIdle ==
  /\ ipcStream = <<>> /\ ipcPos = 0 /\ ipcBuffer = <<>> /\ ipcMessages = <<>>

InitMgrIdle ==
  /\ tabs = <<>> /\ activeTabId = NoTab /\ childSockets = {} /\ children = {}
  /\ running = {} /\ sockOut = <<>> /\ submitted = NoSubmit

NoSnapshot == {}

InitDeployIdle ==
  /\ gitLines = <<>> /\ gitExit = 0 /\ unreadable = {} /\ deployPc = "idle"
  /\ snapshot = NoSnapshot /\ requests = <<>> /\ deployErr = ""

NoEntry == [items |-> "none", updatedAt |-> -1]

NoStore == [apps |-> NoEntry, tools |-> NoEntry]

IdleFetch ==
  [pc |-> "idle", force |-> FALSE, useCache |-> TRUE, found |-> "none",
   requested |-> FALSE, out |-> "none", store |-> NoStore]

InitCacheIdle ==
  /\ cacheFile = NoStore /\ clock = 0 /\ ttl = 1
  /\ fetchSt = [k \in {"apps", "tools"} |-> IdleFetch]

InitCmdIdle == cmdPc = "idle" /\ cmdWords = <<>> /\ cmdTick = FALSE /\ resetAt = -1

Workers == {"A", "B"}

ConfigKeys == {"token", "deviceCode", "appId", "conversationId"}

EmptyConfig == [g \in ConfigKeys |-> "undef"]

InitShareIdle ==
  /\ cfgFile = EmptyConfig
  /\ wMem = [w \in Workers |-> EmptyConfig]
  /\ wPc = [w \in Workers |-> "off"]
  /\ wOver = [w \in Workers |-> {}]
  /\ wRead = [w \in Workers |-> EmptyConfig]
  /\ cfgWriter = [g \in ConfigKeys |-> "none"]

InitCbIdle == cbErrors = {}

InitExtIdle ==
  InitDeployIdle /\ InitCacheIdle /\ InitCmdIdle /\ InitShareIdle /\ InitCbIdle

InitDecoder ==
  /\ stream \in Streams
  /\ hasBody \in BOOLEAN
  /\ (hasBody \/ stream = <<>>)
  /\ pos = 0
  /\ decPend = FALSE
  /\ remainder = <<>>
  /\ lines = <<>>
  /\ handled = <<>>
  /\ events = <<>>
  /\ status = "init"
  /\ error = <<>>
  /\ stopRequested = FALSE
  /\ cancelled = FALSE
  /\ splitMid = FALSE

InitWorkerIdle ==
  /\ items = <<>>
  /\ conversationId = "null"
  /\ appId = "null"
  /\ chatMode = "builder"
  /\ executionMode = "local"
  /\ tokenReady = FALSE
  /\ streamingText = <<>>
  /\ lineOut = <<>>
  /\ stack = [f \in 1..MaxInputs |-> <<>>]
  /\ cfgConversationId = "null"
  /\ lastEvent = NoEvent
  /\ started = 0
  /\ delivered = 0

InitStream ==
  /\ InitDecoder /\ InitWorkerIdle /\ InitToolsIdle
  /\ InitLoginIdle /\ InitChainIdle /\ InitIpcIdle /\ InitMgrIdle /\ InitExtIdle

\* if (!response.body) throw new Error("Missing response body")
ConsumeMissingBody ==
  /\ status = "init" /\ ~hasBody
  /\ status' = "failed"
  /\ error' = <<"Missing response body">>
  /\ UNCHANGED <<stream, hasBody, pos, decPend, remainder, lines, handled, events,
                 stopRequested, cancelled, splitMid>>
  /\ UNCHANGED <<workerVars, toolVars, auxVars>>

\* const reader = response.body.getReader()
ConsumeGetReader ==
  /\ status = "init" /\ hasBody
  /\ status' = "reading"
  /\ UNCHANGED <<stream, hasBody, pos, decPend, remainder, lines, handled, events,
                 error, stopRequested, cancelled, splitMid>>
  /\ UNCHANGED <<workerVars, toolVars, auxVars>>

\* reader.read() yields the next k bytes; decode, prepend remainder, split, pop.
ReadChunk(k) ==
  /\ status = "reading" /\ lines = <<>>
  /\ pos + k <= Len(stream)
  /\ LET d == DecodeChunk(decPend, SubSeq(stream, pos + 1, pos + k))
         pieces == SplitNL(remainder \o d.out)
     IN /\ decPend' = d.pend
        /\ remainder' = NextRemainder(pieces)
        /\ lines' = CompleteLines(pieces)
        /\ splitMid' = (splitMid \/ (Last(pieces) # <<>> /\ pos + k < Len(stream)))
  /\ pos' = pos + k
  /\ UNCHANGED <<stream, hasBody, handled, events, status, error, stopRequested, cancelled>>
  /\ UNCHANGED <<workerVars, toolVars, auxVars>>

\* reader.read() yields done: the loop breaks and the promise resolves.
ReadDone ==
  /\ status = "reading" /\ lines = <<>>
  /\ pos = Len(stream)
  /\ status' = "done"
  /\ UNCHANGED <<stream, hasBody, pos, decPend, remainder, lines, handled, events,
                 error, stopRequested, cancelled, splitMid>>
  /\ UNCHANGED <<workerVars, toolVars, auxVars>>

\* One run of the loop body on the next line, with the stopIfNeeded() that ends
\* it when the body reaches it.
\* the callbacks fired so far, after a line that fired ev; stop: stopIfNeeded()
\* found the predicate true and called onStop
Fired_Retracting(evs, ev, stop) ==
  IF stop THEN Append(evs, Ev("stop", <<>>)) ELSE evs \o ev
Fired(evs, ev, stop) ==
  evs \o ev \o (IF stop THEN <<Ev("stop", <<>>)>> ELSE <<>>)

HandleLine ==
  /\ status = "reading" /\ lines # <<>>
  /\ LET r == LineResult(Head(lines))
         stop == r.poll /\ stopRequested
     IN /\ events' = Fired(events, r.ev, stop)
        /\ status' = IF r.thrown THEN "failed" ELSE IF stop THEN "stopped" ELSE "reading"
        /\ error' = IF r.thrown THEN r.msg ELSE error
        /\ cancelled' = (cancelled \/ stop)
  /\ handled' = Append(handled, Head(lines))
  /\ lines' = Tail(lines)
  /\ UNCHANGED <<stream, hasBody, pos, decPend, remainder, stopRequested, splitMid>>
  /\ UNCHANGED <<workerVars, toolVars, auxVars>>

\* The consumer's predicate turns true (a callback or another task sets it).
SetStop ==
  /\ status \in {"init", "reading"} /\ hasBody
  /\ ~stopRequested
  /\ stopRequested' = TRUE
  /\ UNCHANGED <<stream, hasBody, pos, decPend, remainder, lines, handled, events,
                 status, error, cancelled, splitMid>>
  /\ UNCHANGED <<workerVars, toolVars, auxVars>>

NextStream ==
  \/ ConsumeMissingBody
  \/ ConsumeGetReader
  \/ \E k \in 1..(Len(stream) - pos) : ReadChunk(k)
  \/ ReadDone
  \/ HandleLine

\* consumeStream called without shouldStop, as every caller in the repository does
SpecStream == InitStream /\ [][NextStream]_vars

\* consumeStream called with a shouldStop predicate
SpecCancel == InitStream /\ [][NextStream \/ SetStop]_vars

\* ---- reference runs used to state the decoder's properties ---------------
\* The loop body over a list of lines, no cancellation.
RECURSIVE RunLines(_, _)
RunLines(ls, acc) ==
  IF ls = <<>> THEN [events |-> acc, failed |-> FALSE, error |-> <<>>]
  ELSE LET r == LineResult(Head(ls)) IN
       IF r.thrown THEN [events |-> acc \o r.ev, failed |-> TRUE, error |-> r.msg]
       ELSE RunLines(Tail(ls), acc \o r.ev)

\* consumeStream on the same bytes delivered by a single read
OneChunk(bytes) ==
  RunLines(CompleteLines(SplitNL(DecodeChunk(FALSE, bytes).out)), <<>>)

Received == SubSeq(stream, 1, pos)
ReceivedText == DecodeChunk(FALSE, Received).out

IsStringError(line) ==
  StartsWith(line, "3") /\ ParseJSON(Payload(line)).ok /\ ParseJSON(Payload(line)).kind = "string"

IsMalformed2(line) ==
  StartsWith(line, "2") /\ Payload(line) # <<>> /\ ~ParseJSON(Payload(line)).ok

RECURSIVE WithoutMalformed2(_)
WithoutMalformed2(ls) ==
  IF ls = <<>> THEN <<>>
  ELSE IF IsMalformed2(Head(ls)) THEN WithoutMalformed2(Tail(ls))
  ELSE <<Head(ls)>> \o WithoutMalformed2(Tail(ls))

Started == hasBody /\ status # "init"

\* ---- Frame Decoder claims -------------------------------------------------

\* C3 (as claimed): shouldStop is checked after each decoded line of every tag,
\* so a non-empty line handled while the predicate is true is the last one:
\* the loop body ends in the stop (or in a failure), never in "reading".
C3_StopCheckedAfterEveryLine ==
  [][(status = "reading" /\ stopRequested /\ lines # <<>> /\ Head(lines) # <<>>
        /\ handled' # handled)
      => status' \in {"stopped", "failed"}]_vars

\* C4 (as claimed): a `3` line whose payload is a JSON string rejects
\* consumeStream with that string, and no later line is decoded.
C4_ErrorFrameAborts ==
  \A i \in 1..Len(handled) :
    IsStringError(handled[i]) =>
      /\ i = Len(handled)
      /\ status = "failed"
      /\ error = ParseJSON(Payload(handled[i])).val

\* C5: chunking-invariance.  Whenever the decoder waits for the next read (or has
\* failed), the callbacks fired so far, and the failure if any, are those of
\* consumeStream on the same received bytes delivered by one single read.
C5_ChunkingInvariance ==
  (Started /\ (lines = <<>> \/ status = "failed")) =>
    LET o == OneChunk(Received) IN
      /\ events = o.events
      /\ (status = "failed") = o.failed
      /\ (status = "failed" => error = o.error)

C5_Witness ==
  /\ status = "done" /\ splitMid
  /\ Len(events) >= 2
  /\ Len(handled) = MaxLines

C7_FailsOnlyOnBodyOrErrorFrame ==
  status = "failed" => (~hasBody \/ (handled # <<>> /\ IsStringError(Last(handled))))

\* C8: a `2` line with malformed JSON does not fail the stream and fires no
\* callback, and what is decoded around it is what is decoded without it: the
\* events and the outcome are those of the handled lines with the malformed
\* `2` lines taken out.
C8_Malformed2Skipped ==
  Started =>
    LET o == RunLines(WithoutMalformed2(handled), <<>>) IN
      /\ events = o.events
      /\ (status = "failed") = o.failed
      /\ (handled # <<>> /\ IsMalformed2(Last(handled)) => status # "failed")

C8_Witness ==
  /\ Len(handled) = 2
  /\ IsMalformed2(handled[1])
  /\ LineResult(handled[2]).ev # <<>>
  /\ events = LineResult(handled[2]).ev

\* ======================= Session Driver (ChatWorker) =======================
\* One flow per input message: child.ts starts handleInput without awaiting it
\* (`void handler?.handleInput(message.text)`), so flows interleave at their
\* awaits.  A flow is the chain of its pending async calls: a sendMessage frame
\* at the bottom and one sendToolResult frame per nested tool follow-up.

Flows == 1..MaxInputs
Deltas == {"a", "SP"}
ConvIds == {"c1", "c2"}
\* what one `2` frame can deliver to onItems: kinds of items, in order; the
\* tool_call of the k-th delivered event carries callId k
Batches == { <<"TC">>, <<"AM">>, <<"APP">>, <<"TC", "AM">> }

Item(type, role, id, app) == [type |-> type, role |-> role, id |-> id, app |-> app]
UserItem(f) == Item("message", "user", f, "null")
ToolOutputItem(callId) == Item("tool_output", "none", callId, "null")
ItemOfKind(k, callId) ==
  IF k = "TC" THEN Item("tool_call", "none", callId, "null")
  ELSE IF k = "AM" THEN Item("message", "assistant", callId, "null")
  ELSE Item("app_created", "none", callId, "app1")

BatchItems(b, callId) == [i \in 1..Len(b) |-> ItemOfKind(b[i], callId)]

Line(kind, text) == [kind |-> kind, text |-> text]

\* fn: "sendMessage" | "sendToolResult"
\* pc: "submit"   after the user item was pushed, before chatRequest is called
\*     "response" awaiting chatRequest
\*     "stream"   inside consumeStream, awaiting the next decoded event
\*     "items"    inside onItems, about to handle the head of batch
\*     "tool"     inside handleToolCall, awaiting executeLocalTool
\*     "call"     inside handleToolCall, awaiting sendToolResult (the frame above)
\* batch: items of the current onItems call not handled yet
\* call: the callId handleToolCall is working on
Frame(fn, pc, batch, call) == [fn |-> fn, pc |-> pc, batch |-> batch, call |-> call]

Top(f) == Last(stack[f])
Running(f) == stack[f] # <<>>
WithTop(st, fr) == Append(Front(st), fr)

\* the for-loop of onItems goes on with the next item, or onItems returns into
\* consumeStream
Resume(fr) == [fr EXCEPT !.pc = IF fr.batch = <<>> THEN "stream" ELSE "items"]

\* the top frame of st returns normally
Returned(st) == IF Len(st) = 1 THEN <<>> ELSE WithTop(Front(st), Resume(st[Len(st) - 1]))

\* the top frame of st throws: a sendMessage rejects the handleInput promise; a
\* sendToolResult throws through handleToolCall and onItems into the catch of
\* the `2` branch of the consumeStream below it, which reads on.
Thrown(st) ==
  IF Len(st) = 1 THEN <<>>
  ELSE WithTop(Front(st), [st[Len(st) - 1] EXCEPT !.pc = "stream", !.batch = <<>>])

\* token()
token == tokenReady

InitWorker ==
  /\ items = <<>>
  /\ conversationId \in {"null", "c0"}
  /\ appId \in {"null", "app0"}
  /\ chatMode \in {"builder", "general"}
  /\ executionMode \in {"local", "hosted"}
  /\ tokenReady \in BOOLEAN
  /\ streamingText = <<>>
  /\ lineOut = <<>>
  /\ stack = [f \in Flows |-> <<>>]
  /\ cfgConversationId = conversationId
  /\ lastEvent = NoEvent
  /\ started = 0
  /\ delivered = 0

InitDecoderIdle ==
  /\ stream = <<>> /\ hasBody = TRUE /\ pos = 0 /\ decPend = FALSE
  /\ remainder = <<>> /\ lines = <<>> /\ handled = <<>> /\ events = <<>>
  /\ status = "init" /\ error = <<>> /\ stopRequested = FALSE
  /\ cancelled = FALSE /\ splitMid = FALSE

InitSession ==
  /\ InitWorker /\ InitDecoderIdle /\ InitToolsIdle
  /\ InitLoginIdle /\ InitChainIdle /\ InitIpcIdle /\ InitMgrIdle /\ InitExtIdle

\* child.ts input handler -> handleInput(text) -> sendMessage(text), up to the
\* await of recordHistory that follows the push of the user item.
Input(f) ==
  /\ f = started + 1
  /\ started' = f
  /\ IF ~token
     THEN /\ lineOut' = <<Line("login required", <<>>)>>
          /\ UNCHANGED <<items, stack>>
     ELSE /\ items' = Append(items, UserItem(f))
          /\ lineOut' = <<Line("user", <<>>)>>
          /\ stack' = [stack EXCEPT ![f] = <<Frame("sendMessage", "submit", <<>>, 0)>>]
  /\ UNCHANGED <<conversationId, appId, chatMode, executionMode, tokenReady,
                 streamingText>>
  /\ lastEvent' = NoEvent
  /\ UNCHANGED <<delivered, cfgConversationId, decVars, toolVars, auxVars>>

\* sendMessage: the body is built from this.items and chatRequest is called.
Submit(f) ==
  /\ Running(f) /\ Top(f).pc = "submit"
  /\ stack' = [stack EXCEPT ![f] = WithTop(@, [Top(f) EXCEPT !.pc = "response"])]
  /\ lineOut' = <<>>
  /\ UNCHANGED <<items, conversationId, appId, chatMode, executionMode, tokenReady,
                 streamingText, started>>
  /\ lastEvent' = NoEvent
  /\ UNCHANGED <<delivered, cfgConversationId, decVars, toolVars, auxVars>>

\* `await chatRequest(...)` rejects (connect or read failure): nothing catches it
\* in sendMessage or sendToolResult.
RequestRejects(f) ==
  /\ Running(f) /\ Top(f).pc = "response"
  /\ stack' = [stack EXCEPT ![f] = Thrown(@)]
  /\ lineOut' = <<>>
  /\ UNCHANGED <<items, conversationId, appId, chatMode, executionMode, tokenReady,
                 streamingText, started>>
  /\ lastEvent' = NoEvent
  /\ UNCHANGED <<delivered, cfgConversationId, decVars, toolVars, auxVars>>

\* `if (!response.ok)`: one line, return.
RequestNotOk(f) ==
  /\ Running(f) /\ Top(f).pc = "response"
  /\ stack' = [stack EXCEPT ![f] = Returned(@)]
  /\ lineOut' = <<Line("request error", <<>>)>>
  /\ UNCHANGED <<items, conversationId, appId, chatMode, executionMode, tokenReady,
                 streamingText, started>>
  /\ lastEvent' = NoEvent
  /\ UNCHANGED <<delivered, cfgConversationId, decVars, toolVars, auxVars>>

\* The response is OK: sendMessage clears the live buffer (sendToolResult does
\* not) and consumeStream starts.
RequestOk(f) ==
  /\ Running(f) /\ Top(f).pc = "response"
  /\ stack' = [stack EXCEPT ![f] = WithTop(@, [Top(f) EXCEPT !.pc = "stream"])]
  /\ streamingText' = IF Top(f).fn = "sendMessage" THEN <<>> ELSE streamingText
  /\ lineOut' = <<>>
  /\ UNCHANGED <<items, conversationId, appId, chatMode, executionMode, tokenReady,
                 started>>
  /\ lastEvent' = NoEvent
  /\ UNCHANGED <<delivered, cfgConversationId, decVars, toolVars, auxVars>>

\* the remote endpoint streams at most MaxEvents events in all
CanDeliver(f) == Running(f) /\ Top(f).pc = "stream" /\ delivered < MaxEvents

\* (this.streamingText ?? "") + delta
Accumulate_Replace(text, delta) == <<delta>>
Accumulate(text, delta) == Append(text, delta)

\* onTextDelta: updateStreaming(this.streamingText + delta)
TextDelta(f, delta) ==
  /\ CanDeliver(f)
  /\ streamingText' = Accumulate(streamingText, delta)
  /\ delivered' = delivered + 1
  /\ lineOut' = <<>>
  /\ UNCHANGED stack
  /\ UNCHANGED <<items, conversationId, appId, chatMode, executionMode, tokenReady,
                 started>>
  /\ lastEvent' = Ev("text", <<delta>>)
  /\ UNCHANGED <<cfgConversationId, decVars, toolVars, auxVars>>

\* callbacks.onReasoningDelta?.(delta): neither sendMessage nor sendToolResult
\* passes an onReasoningDelta.
ReasoningDelta(f, delta) ==
  /\ CanDeliver(f)
  /\ delivered' = delivered + 1
  /\ lastEvent' = Ev("reasoning", <<delta>>)
  /\ lineOut' = <<>>
  /\ UNCHANGED stack
  /\ UNCHANGED <<items, conversationId, appId, chatMode, executionMode, tokenReady,
                 streamingText, started>>
  /\ UNCHANGED <<cfgConversationId, decVars, toolVars, auxVars>>

\* onConversationId: sendMessage passes `if (!this.conversationId) { ... }`,
\* sendToolResult passes no onConversationId.
Captures_Always(fn, cur) == fn = "sendMessage"
Captures(fn, cur) == fn = "sendMessage" /\ cur = "null"

\* this.conversationId = id; void this.persistConfig({ conversationId: id })
ConversationIdEvent(f, id) ==
  /\ CanDeliver(f)
  /\ conversationId' = IF Captures(Top(f).fn, conversationId) THEN id ELSE conversationId
  /\ cfgConversationId' = IF Captures(Top(f).fn, conversationId)
                            THEN id ELSE cfgConversationId
  /\ lastEvent' = Ev("conversationId", <<id>>)
  /\ delivered' = delivered + 1
  /\ lineOut' = <<>>
  /\ UNCHANGED stack
  /\ UNCHANGED <<items, appId, chatMode, executionMode, tokenReady, streamingText,
                 started>>
  /\ UNCHANGED <<decVars, toolVars, auxVars>>

\* maybeCaptureAppId(items)
CapturedAppId(its) ==
  IF appId # "null" THEN appId
  ELSE IF \E i \in 1..Len(its) : its[i].app # "null"
       THEN its[CHOOSE i \in 1..Len(its) :
                   its[i].app # "null" /\ \A j \in 1..(i - 1) : its[j].app = "null"].app
       ELSE appId

\* onItems(items) is called: maybeCaptureAppId, then the for-loop starts.
ItemsEvent(f, b) ==
  /\ CanDeliver(f)
  /\ LET its == BatchItems(b, delivered + 1)
     IN /\ appId' = CapturedAppId(its)
        /\ lineOut' = IF CapturedAppId(its) # appId THEN <<Line("app linked", <<>>)>> ELSE <<>>
        /\ stack' = [stack EXCEPT ![f] =
                       WithTop(@, [Top(f) EXCEPT !.pc = "items", !.batch = its])]
  /\ delivered' = delivered + 1
  /\ UNCHANGED <<items, conversationId, chatMode, executionMode, tokenReady,
                 streamingText, started>>
  /\ lastEvent' = Ev("items", b)
  /\ UNCHANGED <<cfgConversationId, decVars, toolVars, auxVars>>

\* handleToolCall up to `await executeLocalTool`: "run", "reject" (one line) or
\* "skip" (silent return).
ToolCallGate ==
  IF ~token \/ chatMode # "builder" \/ executionMode # "local" THEN "skip"
  ELSE IF appId = "null" THEN "reject"
  ELSE "run"

\* One turn of the for-loop of onItems on the head of batch.
HandleItem(f) ==
  /\ Running(f) /\ Top(f).pc = "items"
  /\ LET item == Head(Top(f).batch)
         rest == [Top(f) EXCEPT !.batch = Tail(@)]
         live == Top(f).fn = "sendMessage" /\ item.type = "message" /\ item.role = "assistant"
     IN /\ items' = Append(items, item)
        /\ streamingText' = IF live THEN <<"m">> ELSE streamingText
        /\ lineOut' =
             IF live THEN <<>>
             ELSE <<Line(item.type, <<>>)>>
                  \o (IF item.type = "tool_call" /\ ToolCallGate = "reject"
                        THEN <<Line("tool_call rejected", <<>>)>> ELSE <<>>)
        /\ stack' = [stack EXCEPT ![f] =
             WithTop(@, IF ~live /\ item.type = "tool_call" /\ ToolCallGate = "run"
                        THEN [rest EXCEPT !.pc = "tool", !.call = item.id]
                        ELSE Resume(rest))]
  /\ UNCHANGED <<conversationId, appId, chatMode, executionMode, tokenReady,
                 started>>
  /\ lastEvent' = NoEvent
  /\ UNCHANGED <<delivered, cfgConversationId, decVars, toolVars, auxVars>>

\* sendToolResult up to chatRequest: "skip" (silent return), "reject" (one line),
\* "append" (tool_output appended, nothing sent) or "send".
ToolResultGate ==
  IF ~token \/ chatMode # "builder" THEN "skip"
  ELSE IF conversationId = "null" THEN "reject"
  ELSE IF executionMode # "local" THEN "append"
  ELSE "send"

\* executeLocalTool resolves (it never rejects); handleToolCall reports the
\* output and calls sendToolResult, which runs up to `await chatRequest`.
ToolDone(f, ok) ==
  /\ Running(f) /\ Top(f).pc = "tool"
  /\ items' = IF ToolResultGate \in {"append", "send"}
                THEN Append(items, ToolOutputItem(Top(f).call)) ELSE items
  /\ lineOut' = <<Line("tool_output", <<>>)>>
                \o (IF ToolResultGate = "reject"
                      THEN <<Line("tool_result error", <<>>)>> ELSE <<>>)
  /\ stack' = [stack EXCEPT ![f] =
       IF ToolResultGate = "send"
       THEN Append(WithTop(@, [Top(f) EXCEPT !.pc = "call"]),
                   Frame("sendToolResult", "response", <<>>, 0))
       ELSE WithTop(@, Resume(Top(f)))]
  /\ UNCHANGED <<conversationId, appId, chatMode, executionMode, tokenReady,
                 streamingText, started>>
  /\ lastEvent' = NoEvent
  /\ UNCHANGED <<delivered, cfgConversationId, decVars, toolVars, auxVars>>

\* consumeStream resolves: a non-blank live buffer is reported as an assistant
\* line, then cleared.
StreamEnd(f) ==
  /\ Running(f) /\ Top(f).pc = "stream"
  /\ lineOut' = IF Trim(streamingText) # <<>>
                  THEN <<Line("assistant", streamingText)>> ELSE <<>>
  /\ streamingText' = <<>>
  /\ stack' = [stack EXCEPT ![f] = Returned(@)]
  /\ UNCHANGED <<items, conversationId, appId, chatMode, executionMode, tokenReady,
                 started>>
  /\ lastEvent' = NoEvent
  /\ UNCHANGED <<delivered, cfgConversationId, decVars, toolVars, auxVars>>

\* consumeStream rejects (a read error, or a malformed `0:`/`g:` payload): the
\* catch reports one line and clears the live buffer.
StreamFail(f) ==
  /\ Running(f) /\ Top(f).pc = "stream"
  /\ lineOut' = <<Line("stream error", <<>>)>>
  /\ streamingText' = <<>>
  /\ stack' = [stack EXCEPT ![f] = Returned(@)]
  /\ UNCHANGED <<items, conversationId, appId, chatMode, executionMode, tokenReady,
                 started>>
  /\ lastEvent' = NoEvent
  /\ UNCHANGED <<delivered, cfgConversationId, decVars, toolVars, auxVars>>

NextSession ==
  \/ \E f \in Flows : Input(f)
  \/ \E f \in Flows : Submit(f)
  \/ \E f \in Flows : RequestRejects(f)
  \/ \E f \in Flows : RequestNotOk(f)
  \/ \E f \in Flows : RequestOk(f)
  \/ \E f \in Flows, delta \in Deltas : TextDelta(f, delta)
  \/ \E f \in Flows : ReasoningDelta(f, "r")
  \/ \E f \in Flows, id \in ConvIds : ConversationIdEvent(f, id)
  \/ \E f \in Flows, b \in Batches : ItemsEvent(f, b)
  \/ \E f \in Flows : HandleItem(f)
  \/ \E f \in Flows, ok \in BOOLEAN : ToolDone(f, ok)
  \/ \E f \in Flows : StreamEnd(f)
  \/ \E f \in Flows : StreamFail(f)

SpecSession == InitSession /\ [][NextSession]_vars

\* The same worker when the user submits the next input only after the
\* previous handleInput call has settled (no two flows at once).
Idle == \A f \in Flows : ~Running(f)

NextTurns ==
  \/ \E f \in Flows : Idle /\ Input(f)
  \/ \E f \in Flows : Submit(f)
  \/ \E f \in Flows : RequestRejects(f)
  \/ \E f \in Flows : RequestNotOk(f)
  \/ \E f \in Flows : RequestOk(f)
  \/ \E f \in Flows, delta \in Deltas : TextDelta(f, delta)
  \/ \E f \in Flows : ReasoningDelta(f, "r")
  \/ \E f \in Flows, id \in ConvIds : ConversationIdEvent(f, id)
  \/ \E f \in Flows, b \in Batches : ItemsEvent(f, b)
  \/ \E f \in Flows : HandleItem(f)
  \/ \E f \in Flows, ok \in BOOLEAN : ToolDone(f, ok)
  \/ \E f \in Flows : StreamEnd(f)
  \/ \E f \in Flows : StreamFail(f)

SpecTurns == InitSession /\ [][NextTurns]_vars

\* ---- Session Driver claims -------------------------------------------------

LocalMode == chatMode = "builder" /\ executionMode = "local"

\* this step calls chatRequest for the user turn of flow f
SubmitsUserTurn(f) ==
  /\ Running(f) /\ Top(f).fn = "sendMessage" /\ Top(f).pc = "submit"
  /\ stack'[f] # <<>> /\ Last(stack'[f]).pc = "response"

\* every tool_call of its is followed by exactly one tool_output of its callId
Answered(its) ==
  \A i \in 1..Len(its) :
    its[i].type = "tool_call" =>
      Cardinality({j \in 1..Len(its) :
                     j > i /\ its[j].type = "tool_output" /\ its[j].id = its[i].id}) = 1

\* C1 (as claimed): in local execution mode, whenever a user turn is submitted
\* to the chat endpoint, every tool_call already in items has exactly one
\* tool_output of the same callId after it in items.
C1_ToolCallAnsweredBeforeNextTurn ==
  [][\A f \in Flows : (SubmitsUserTurn(f) /\ LocalMode) => Answered(items)]_vars

\* C2 (as claimed): at most one executeLocalTool call is in progress in the
\* worker at any time.
C2_OneToolInvocationAtATime ==
  Cardinality({f \in Flows : Running(f) /\ Top(f).pc = "tool"}) <= 1

\* C9 (as claimed): the step that reports a stream failure while the live
\* buffer holds non-blank text also reports that text as an assistant line.
C9_PartialTextFlushedOnFailure ==
  [][((\E i \in 1..Len(lineOut') : lineOut'[i].kind = "stream error")
        /\ Trim(streamingText) # <<>>)
      => \E j \in 1..Len(lineOut') : lineOut'[j] = Line("assistant", streamingText)]_vars

\* C10 (as claimed): when the chat request of a user turn fails (it rejects or
\* returns a non-OK status), sendMessage ends with the session as it was before
\* the turn: the turn's user item is not in items, and conversationId, appId and
\* the live buffer are unchanged.
C10_FailedRequestLeavesNoUserItem ==
  [][\A f \in Flows :
       (Running(f) /\ Top(f).fn = "sendMessage" /\ Top(f).pc = "response"
          /\ stack'[f] = <<>>)
       => /\ \A i \in 1..Len(items') : items'[i] # UserItem(f)
          /\ UNCHANGED <<conversationId, appId, streamingText>>]_vars

\* =========================== Tool Sandbox (tools.ts) ========================
\* A path argument is a sequence of segments; a leading "/" segment makes it
\* absolute.  File contents in memory are sequences of UTF-16 code units: "a",
\* "b", "HS" (a lone high surrogate) and "FFFD" (the replacement character).
\* On disk they are bytes: "61", "62" and the three bytes "EF" "BF" "BD".

\* path.resolve(base, segs)
RECURSIVE ResolveFrom(_, _)
ResolveFrom(acc, segs) ==
  IF segs = <<>> THEN acc
  ELSE IF Head(segs) = "/" THEN ResolveFrom(<<>>, Tail(segs))
  ELSE IF Head(segs) = ".."
       THEN ResolveFrom(IF acc = <<>> THEN <<>> ELSE Front(acc), Tail(segs))
  ELSE ResolveFrom(Append(acc, Head(segs)), Tail(segs))

\* length of the longest common prefix of two absolute paths
RECURSIVE CommonLen(_, _)
CommonLen(a, b) ==
  IF a = <<>> \/ b = <<>> \/ Head(a) # Head(b) THEN 0
  ELSE 1 + CommonLen(Tail(a), Tail(b))

\* path.relative(from, to)
PathRelative(from, to) ==
  LET k == CommonLen(from, to)
  IN [i \in 1..(Len(from) - k) |-> ".."] \o SubSeq(to, k + 1, Len(to))

Throw(msg) == [thrown |-> TRUE, value |-> msg]
Value(v) == [thrown |-> FALSE, value |-> v]

\* resolvePath(rootDir, filePath); path.isAbsolute(relative) is never true on
\* POSIX, where path.relative returns a relative path
resolvePath(rootDir, filePath) ==
  LET resolved == ResolveFrom(rootDir, filePath)
      relative == PathRelative(rootDir, resolved)
  IN IF relative # <<>> /\ Head(relative) = ".."
     THEN Throw("Path is outside workspace")
     ELSE Value(resolved)

\* ensureReadBeforeWrite(readSet, filePath) throws
MustReadFirst(rs, filePath) == filePath \notin rs

\* what fs.writeFile(path, content, "utf-8") puts on disk
RECURSIVE EncodeUtf8(_)
EncodeUtf8(content) ==
  IF content = <<>> THEN <<>>
  ELSE (IF Head(content) = "a" THEN <<"61">>
        ELSE IF Head(content) = "b" THEN <<"62">>
        ELSE <<"EF", "BF", "BD">>) \o EncodeUtf8(Tail(content))

\* what fs.readFile(path, "utf-8") returns for bytes on disk
RECURSIVE DecodeUtf8(_)
DecodeUtf8(bytes) ==
  IF bytes = <<>> THEN <<>>
  ELSE IF Head(bytes) = "61" THEN <<"a">> \o DecodeUtf8(Tail(bytes))
  ELSE IF Head(bytes) = "62" THEN <<"b">> \o DecodeUtf8(Tail(bytes))
  ELSE IF Len(bytes) >= 3 /\ SubSeq(bytes, 1, 3) = <<"EF", "BF", "BD">>
       THEN <<"FFFD">> \o DecodeUtf8(SubSeq(bytes, 4, Len(bytes)))
  ELSE <<"FFFD">> \o DecodeUtf8(Tail(bytes))

\* ---- the filesystem as node:fs sees it --------------------------------------
FileAt(fl, p) == IF p \in AbsFiles THEN fl[p] ELSE NoFile
IsDir(ds, p) == p = Root \/ p = <<>> \/ p \in ds
\* fs.access(p, F_OK) succeeds
Exists(fl, ds, p) == FileAt(fl, p) # NoFile \/ IsDir(ds, p)
\* fs.readFile(p) succeeds
Readable(fl, p) == FileAt(fl, p) # NoFile
\* fs.writeFile(p) succeeds: the parent directory exists and p is no directory
Writable(ds, p) == p \in AbsFiles /\ IsDir(ds, Front(p)) /\ ~IsDir(ds, p)

\* ---- outcome of one tool function -------------------------------------------
\* thrown/error: the function threw; output: what it returned; fl, ds, rs: the
\* files, directories and ReadSet it leaves; fx: "fs" when it reached the
\* filesystem, "spawn" when it started a subprocess or a remote deploy
Outcome(thrown, err, output, fl, ds, rs, fx) ==
  [thrown |-> thrown, error |-> err, output |-> output,
   fl |-> fl, ds |-> ds, rs |-> rs, fx |-> fx]
Fails(err, fx) == Outcome(TRUE, err, "none", files, dirs, readSet, fx)
Returns(output, fl, ds, rs, fx) == Outcome(FALSE, "none", output, fl, ds, rs, fx)

\* readFileTool(ctx, args), were ctx.readSet.add given the path as it came
readFileTool_AddsArgument(args) ==
  IF args.path = <<>> THEN Fails("path is required", {})
  ELSE LET r == resolvePath(Root, args.path)
       IN IF r.thrown THEN Fails(r.value, {})
          ELSE IF ~Readable(files, r.value) THEN Fails("ENOENT", {"fs"})
          ELSE Returns(DecodeUtf8(files[r.value]), files, dirs,
                       readSet \cup {args.path}, {"fs"})
\* readFileTool(ctx, args)
readFileTool(args) ==
  IF args.path = <<>> THEN Fails("path is required", {})
  ELSE LET r == resolvePath(Root, args.path)
       IN IF r.thrown THEN Fails(r.value, {})
          ELSE IF ~Readable(files, r.value) THEN Fails("ENOENT", {"fs"})
          ELSE Returns(DecodeUtf8(files[r.value]), files, dirs,
                       readSet \cup {r.value}, {"fs"})

\* String(args.content || ""): a string stays as it is, the empty one included
ContentArg_Placeholder(content) == IF content = <<>> THEN <<"a">> ELSE content
ContentArg(content) == IF content = <<>> THEN <<>> ELSE content

\* writeFileTool(ctx, args); createUnifiedDiff works in a fresh temporary
\* directory outside the workspace and is taken to succeed
writeFileTool(args) ==
  IF args.path = <<>> THEN Fails("path is required", {})
  ELSE LET r == resolvePath(Root, args.path)
       IN IF r.thrown THEN Fails(r.value, {})
          ELSE IF Exists(files, dirs, r.value) /\ MustReadFirst(readSet, r.value)
               THEN Fails("File must be read before write/patch", {"fs"})
          ELSE IF Exists(files, dirs, r.value) /\ ~Readable(files, r.value)
               THEN Fails("EISDIR", {"fs"})
          ELSE IF ~Writable(dirs, r.value) THEN Fails("ENOENT", {"fs"})
          ELSE Returns("written",
                       [files EXCEPT ![r.value] = EncodeUtf8(ContentArg(args.content))],
                       dirs, readSet, {"fs"})

\* ---- apply_patch ------------------------------------------------------------
\* A patch is a sequence of file sections; a section is what `git diff` prints
\* for one file: "modify", "create" (old side /dev/null), "delete" (new side
\* /dev/null) or a pure "rename" (no ---/+++ lines).
Section(kind, path, to) == [kind |-> kind, path |-> path, to |-> to]
PatchLine(tag, pre, val) == [tag |-> tag, pre |-> pre, val |-> val]
DevNull == <<"/", "dev", "null">>

SectionLines(sec) ==
  IF sec.kind = "modify"
    THEN << PatchLine("---", "a/", sec.path), PatchLine("+++", "b/", sec.path) >>
  ELSE IF sec.kind = "create"
    THEN << PatchLine("---", "", DevNull), PatchLine("+++", "b/", sec.path) >>
  ELSE IF sec.kind = "delete"
    THEN << PatchLine("---", "a/", sec.path), PatchLine("+++", "", DevNull) >>
  ELSE << PatchLine("rename from", "", sec.path), PatchLine("rename to", "", sec.to) >>

\* the header lines of the patch text, in order
RECURSIVE PatchText(_)
PatchText(patch) ==
  IF patch = <<>> THEN <<>> ELSE SectionLines(Head(patch)) \o PatchText(Tail(patch))

\* parsePatchPaths(patchText): the values of the `+++ b/...` lines
RECURSIVE parsePatchPaths(_)
parsePatchPaths(patchText) ==
  IF patchText = <<>> THEN <<>>
  ELSE (IF Head(patchText).tag = "+++" /\ Head(patchText).pre = "b/"
          THEN <<Head(patchText).val>> ELSE <<>>)
       \o parsePatchPaths(Tail(patchText))

\* the first loop of applyPatchTool over `touched`: the error of the first path
\* that throws ("none" when none does), and whether a file was read on the way
RECURSIVE CheckTouched(_, _)
CheckTouched(touched, fx) ==
  IF touched = <<>> THEN [error |-> "none", fx |-> fx]
  ELSE LET r == resolvePath(Root, Head(touched))
       IN IF r.thrown THEN [error |-> r.value, fx |-> fx]
          ELSE IF MustReadFirst(readSet, r.value)
               THEN [error |-> "File must be read before write/patch", fx |-> fx]
          ELSE IF ~Readable(files, r.value) THEN [error |-> "ENOENT", fx |-> {"fs"}]
          ELSE CheckTouched(Tail(touched), {"fs"})

\* `git apply` in the workspace root (the external patch mechanism).  It takes
\* paths relative to its working directory, refuses a path that leaves it, and
\* applies all sections or none.
PlainPath(path) == path # <<>> /\ \A i \in 1..Len(path) : path[i] \notin {"..", "/"}
GitState(ok, fl, ds) == [ok |-> ok, fl |-> fl, ds |-> ds]
WithParent(ds, p) == IF Front(p) = Root THEN ds ELSE ds \cup {Front(p)}

GitSection(g, sec) ==
  LET p == Root \o sec.path
      q == Root \o sec.to
  IN IF ~g.ok \/ ~PlainPath(sec.path) \/ p \notin AbsFiles THEN GitState(FALSE, g.fl, g.ds)
     ELSE IF sec.kind = "modify"
       THEN IF Readable(g.fl, p)
              THEN GitState(TRUE, [g.fl EXCEPT ![p] = <<"62">>], g.ds)
              ELSE GitState(FALSE, g.fl, g.ds)
     ELSE IF sec.kind = "create"
       THEN IF ~Exists(g.fl, g.ds, p)
              THEN GitState(TRUE, [g.fl EXCEPT ![p] = <<"62">>], WithParent(g.ds, p))
              ELSE GitState(FALSE, g.fl, g.ds)
     ELSE IF sec.kind = "delete"
       THEN IF Readable(g.fl, p)
              THEN GitState(TRUE, [g.fl EXCEPT ![p] = NoFile], g.ds)
              ELSE GitState(FALSE, g.fl, g.ds)
     ELSE IF PlainPath(sec.to) /\ q \in AbsFiles /\ Readable(g.fl, p)
             /\ ~Exists(g.fl, g.ds, q)
       THEN GitState(TRUE, [g.fl EXCEPT ![p] = NoFile, ![q] = g.fl[p]],
                     WithParent(g.ds, q))
       ELSE GitState(FALSE, g.fl, g.ds)

RECURSIVE GitSections(_, _)
GitSections(g, patch) ==
  IF patch = <<>> THEN g ELSE GitSections(GitSection(g, Head(patch)), Tail(patch))

\* hunksFit: the hunks of the patch match the files (git apply exits 0)
GitApply(patch, hunksFit) ==
  LET g == GitSections(GitState(hunksFit, files, dirs), patch)
  IN IF g.ok THEN g ELSE GitState(FALSE, files, dirs)

\* applyPatchTool(ctx, args)
applyPatchTool(args, hunksFit) ==
  IF args.patch = <<>> THEN Fails("patch is required", {})
  ELSE LET touched == parsePatchPaths(PatchText(args.patch))
           chk == CheckTouched(touched, {})
           g == GitApply(args.patch, hunksFit)
       IN IF chk.error # "none" THEN Fails(chk.error, chk.fx)
          ELSE IF ~g.ok THEN Fails("git apply failed", chk.fx \cup {"spawn"})
          ELSE IF \E i \in 1..Len(touched) :
                    ~Readable(g.fl, resolvePath(Root, touched[i]).value)
               THEN Outcome(TRUE, "ENOENT", "none", g.fl, g.ds, readSet, {"fs", "spawn"})
          ELSE Returns("patched", g.fl, g.ds, readSet, {"fs", "spawn"})

\* listFilesTool, grepTool, deployTool: they change neither the workspace files
\* nor the ReadSet; extOk: the scan, `rg`, or `git status` + commit + deploy
\* went through
listFilesTool(extOk) ==
  IF extOk THEN Returns("matches", files, dirs, readSet, {"fs"})
  ELSE Fails("scan failed", {"fs"})
grepTool(extOk) ==
  IF extOk THEN Returns("matches", files, dirs, readSet, {"spawn"})
  ELSE Fails("rg failed", {"spawn"})
deployTool(extOk) ==
  IF extOk THEN Returns("deployed", files, dirs, readSet, {"spawn"})
  ELSE Fails("deploy failed", {"spawn"})

\* ---- executeLocalTool -------------------------------------------------------
KnownTools == {"read_file", "list_files", "grep", "apply_patch", "write_file", "deploy"}
PathArgs == { <<>>, <<"f">>, <<"d", "f">>, <<"..", "x">>, <<"/", "x">> }
PatchPaths == { <<"f">>, <<"d", "f">>, <<"..", "x">> }
Contents == { <<>>, <<"a">>, <<"HS">> }
Patches ==
  { <<>> }
  \cup { <<Section(k, p, <<>>)>> : k \in {"modify", "create", "delete"}, p \in PatchPaths }
  \cup { <<Section("rename", <<"f">>, <<"d", "f">>)>>,
         <<Section("modify", <<"f">>, <<>>), Section("delete", <<"d", "f">>, <<>>)>> }

ToolCall(name, path, content, patch) ==
  [name |-> name, path |-> path, content |-> content, patch |-> patch]
ToolCalls ==
  { ToolCall("read_file", p, <<>>, <<>>) : p \in PathArgs }
  \cup { ToolCall("write_file", <<"f">>, c, <<>>) : c \in Contents }
  \cup { ToolCall("write_file", p, <<"a">>, <<>>) : p \in PathArgs }
  \cup { ToolCall("apply_patch", <<>>, <<>>, pt) : pt \in Patches }
  \cup { ToolCall(n, <<>>, <<>>, <<>>) : n \in {"list_files", "grep", "deploy", "rm"} }

\* the calls the model lets wait for the manifest fetch (any call can follow
\* once it has settled)
FirstCalls ==
  { ToolCall("read_file", <<"f">>, <<>>, <<>>), ToolCall("list_files", <<>>, <<>>, <<>>),
    ToolCall("rm", <<>>, <<>>, <<>>) }

\* what the runs of the external programs of one call can do
Env(hunksFit, extOk) == [hunksFit |-> hunksFit, extOk |-> extOk]
EnvsOf(call) ==
  IF call.name = "apply_patch" THEN { Env(h, TRUE) : h \in BOOLEAN }
  ELSE IF call.name \in {"list_files", "grep", "deploy"} THEN { Env(TRUE, e) : e \in BOOLEAN }
  ELSE { Env(TRUE, TRUE) }

\* getAllowedTools: a fetch is started only when the cache has no entry
NeedsFetch_RetryFailed(m) == m \in {"none", "failed"}
NeedsFetch(m) == m = "none"

\* `allowedTools.has(call.name)`
Allowed_Any(name) == TRUE
Allowed(name) == name \in manifestTools

ToolResult(ok, err, output, thrown) ==
  [ok |-> ok, error |-> err, output |-> output, thrown |-> thrown]

\* the switch of executeLocalTool
Dispatch(call, env) ==
  IF call.name = "read_file" THEN readFileTool(call)
  ELSE IF call.name = "list_files" THEN listFilesTool(env.extOk)
  ELSE IF call.name = "grep" THEN grepTool(env.extOk)
  ELSE IF call.name = "apply_patch" THEN applyPatchTool(call, env.hunksFit)
  ELSE IF call.name = "write_file" THEN writeFileTool(call)
  ELSE IF call.name = "deploy" THEN deployTool(env.extOk)
  ELSE Outcome(FALSE, "Unknown tool", "none", files, dirs, readSet, {})

\* try { return { ok: true, output } } catch (error) { return { ok: false, error } }
Settled_NoCatch(o) ==
  ToolResult(~o.thrown /\ o.error = "none", o.error, o.output, o.thrown)
Settled(o) ==
  ToolResult(~o.thrown /\ o.error = "none", o.error, o.output, FALSE)

\* executeLocalTool(call, ctx) once the getAllowedTools promise has settled:
\* the outcome of the body, a rejected manifest promise included
executeLocalTool(call, env) ==
  IF manifest = "failed" THEN Fails("manifest fetch failed", {})
  ELSE IF ~Allowed(call.name)
    THEN Outcome(FALSE, "Tool not in manifest", "none", files, dirs, readSet, {})
  ELSE Dispatch(call, env)

\* the successful write_file calls whose content is still what the file holds
WrittenAfter(call, o) ==
  [p \in AbsFiles |->
     IF call.name = "write_file" /\ ~o.thrown /\ o.error = "none"
        /\ ~resolvePath(Root, call.path).thrown /\ resolvePath(Root, call.path).value = p
       THEN call.content
     ELSE IF o.fl[p] # files[p] THEN NoWrite
     ELSE written[p]]

InitTools ==
  /\ InitDecoderIdle /\ InitWorkerIdle
  /\ InitLoginIdle /\ InitChainIdle /\ InitIpcIdle /\ InitMgrIdle /\ InitExtIdle
  /\ files \in [AbsFiles -> {NoFile, <<"61">>}]
  /\ files[<<"x">>] # NoFile
  /\ dirs \in SUBSET {<<"w", "d">>}
  /\ files[<<"w", "d", "f">>] # NoFile => <<"w", "d">> \in dirs
  /\ readSet = {}
  /\ manifest = "none"
  /\ manifestTools \in {KnownTools \cup {"rm"}, {"read_file", "write_file"}}
  /\ fetches = 0
  /\ waiting = [c \in Callers |-> NoCall]
  /\ lastCall = NoCall
  /\ result = NoResult
  /\ effects = {}
  /\ written = [p \in AbsFiles |-> NoWrite]

\* executeLocalTool is entered while allowedToolsCache has no settled entry:
\* getAllowedTools starts the fetch if none was started, and the call awaits it.
StartCall(c, call) ==
  /\ waiting[c] = NoCall
  /\ NeedsFetch(manifest) \/ manifest = "pending"
  /\ manifest' = "pending"
  /\ fetches' = IF NeedsFetch(manifest) THEN fetches + 1 ELSE fetches
  /\ waiting' = [waiting EXCEPT ![c] = call]
  /\ lastCall' = NoCall /\ result' = NoResult /\ effects' = {}
  /\ UNCHANGED <<files, dirs, readSet, manifestTools, written>>
  /\ UNCHANGED <<decVars, workerVars, auxVars>>

\* fetchToolManifest settles: the manifest arrives, or the request fails
ManifestSettles(ok) ==
  /\ manifest = "pending"
  /\ manifest' = IF ok THEN "ok" ELSE "failed"
  /\ lastCall' = NoCall /\ result' = NoResult /\ effects' = {}
  /\ UNCHANGED <<files, dirs, readSet, manifestTools, fetches, waiting, written>>
  /\ UNCHANGED <<decVars, workerVars, auxVars>>

\* the body of executeLocalTool runs for call and settles
Run(call, env) ==
  \E o \in {executeLocalTool(call, env)} :
     /\ files' = o.fl
     /\ dirs' = o.ds
     /\ readSet' = o.rs
     /\ lastCall' = call
     /\ result' = Settled(o)
     /\ effects' = o.fx
     /\ written' = WrittenAfter(call, o)

\* a call that awaited the manifest goes on
FinishCall(c, env) ==
  /\ waiting[c] # NoCall
  /\ manifest \in {"ok", "failed"}
  /\ Run(waiting[c], env)
  /\ waiting' = [waiting EXCEPT ![c] = NoCall]
  /\ UNCHANGED <<manifest, manifestTools, fetches>>
  /\ UNCHANGED <<decVars, workerVars, auxVars>>

\* executeLocalTool is entered when the cache entry has settled
DirectCall(call, env) ==
  /\ {c \in Callers : waiting[c] = NoCall} # {}
  /\ ~NeedsFetch(manifest) /\ manifest \in {"ok", "failed"}
  /\ Run(call, env)
  /\ UNCHANGED <<manifest, manifestTools, fetches, waiting>>
  /\ UNCHANGED <<decVars, workerVars, auxVars>>

NextTools ==
  \/ \E c \in Callers, call \in FirstCalls : StartCall(c, call)
  \/ \E ok \in BOOLEAN : ManifestSettles(ok)
  \/ \E c \in Callers : \E env \in EnvsOf(waiting[c]) : FinishCall(c, env)
  \/ \E call \in ToolCalls : \E env \in EnvsOf(call) : DirectCall(call, env)

SpecTools == InitTools /\ [][NextTools]_vars

\* ---- Session Driver claims, continued ----------------------------------------

\* C11 (as claimed): the step in which a chat request fails (it rejects or
\* returns a non-OK status, for a user turn or for a tool follow-up) sends
\* exactly one line to the tab.
C11_OneLinePerFailure ==
  [][\A f \in Flows :
       (Running(f) /\ Top(f).pc = "response" /\ Len(stack'[f]) < Len(stack[f]))
       => Len(lineOut') = 1]_vars

\* the item came out of the Frame Decoder (onItems); its id is the index of the
\* decoded event that carried it
FromDecoder(it) ==
  it.type \in {"tool_call", "app_created"} \/ (it.type = "message" /\ it.role = "assistant")

\* C20 (as claimed): the items the decoder delivered stand in items in the
\* order of their delivery.
C20_ItemsInArrivalOrder ==
  \A i, j \in 1..Len(items) :
    (i < j /\ FromDecoder(items[i]) /\ FromDecoder(items[j]))
    => items[i].id <= items[j].id

\* ---- Tool Sandbox claims -----------------------------------------------------

\* the last step ran the body of executeLocalTool for a call the manifest allows
Ran(name) ==
  lastCall'.name = name /\ manifest = "ok" /\ Allowed(name)

\* the patch modifies, deletes or renames a workspace file that exists and is
\* not in the ReadSet
TouchesUnread(patch) ==
  \E i \in 1..Len(patch) :
    /\ patch[i].kind \in {"modify", "delete", "rename"}
    /\ PlainPath(patch[i].path)
    /\ Readable(files, Root \o patch[i].path)
    /\ (Root \o patch[i].path) \notin readSet

\* C12 (as claimed): an apply_patch call whose patch touches an existing file
\* that is not in the ReadSet does not start the external patch mechanism and
\* changes no file.
C12_UnreadPatchNeverApplied ==
  [][(Ran("apply_patch") /\ TouchesUnread(lastCall'.patch))
     => ("spawn" \notin effects' /\ files' = files /\ dirs' = dirs)]_vars

\* the path argument of the call just run resolves to p inside the workspace
ResolvesTo(p) ==
  /\ lastCall'.path # <<>>
  /\ ~resolvePath(Root, lastCall'.path).thrown
  /\ resolvePath(Root, lastCall'.path).value = p

\* C13 (as claimed): write_file on an existing path that is not in the ReadSet
\* fails with the read-before-write error and leaves the files as they were;
\* write_file on a path that does not exist succeeds.
C13_WriteNeedsReadOnlyIfExists ==
  [][\A p \in AbsFiles :
       (Ran("write_file") /\ ResolvesTo(p))
       => /\ (Exists(files, dirs, p) /\ p \notin readSet)
               => (~result'.ok /\ result'.error = "File must be read before write/patch"
                   /\ files' = files)
          /\ ~Exists(files, dirs, p) => result'.ok]_vars

\* C14 (as claimed): an apply_patch whose only section creates a file at a path
\* that does not exist succeeds, whatever the ReadSet holds.
C14_PatchCreatesNewFile ==
  [][\A p \in PatchPaths :
       (Ran("apply_patch") /\ lastCall'.patch = <<Section("create", p, <<>>)>>
          /\ ~resolvePath(Root, p).thrown
          /\ ~Exists(files, dirs, resolvePath(Root, p).value))
       => result'.ok]_vars

\* a path argument of the call, or a path its patch touches, resolves outside
\* the workspace root
EscapesRoot(call) ==
  \/ call.name \in {"read_file", "write_file"} /\ call.path # <<>>
       /\ resolvePath(Root, call.path).thrown
  \/ call.name = "apply_patch"
       /\ \E i \in 1..Len(call.patch) : resolvePath(Root, call.patch[i].path).thrown

\* C15 (as claimed): a call with a path outside the workspace root returns the
\* path-violation error and changes neither the files nor the ReadSet.
C15_PathViolation ==
  [][(lastCall' # NoCall /\ Ran(lastCall'.name) /\ EscapesRoot(lastCall'))
     => (~result'.ok /\ result'.error = "Path is outside workspace"
         /\ files' = files /\ dirs' = dirs /\ readSet' = readSet)]_vars

\* the content is a well-formed UTF-16 string (no lone surrogate)
WellFormed(content) == \A i \in 1..Len(content) : content[i] # "HS"

\* C16 (as claimed): a read_file of a path returns exactly the content of the
\* last successful write_file on it, when nothing touched the path in between.
C16_WriteReadRoundTrip ==
  [][\A p \in AbsFiles :
       (Ran("read_file") /\ ResolvesTo(p) /\ result'.ok /\ written[p] # NoWrite)
       => result'.output = written[p]]_vars

\* C16 (amended): the same, for every well-formed content (the empty string
\* included); a lone surrogate is stored as U+FFFD and read back as such.
C16_WriteReadRoundTrip_WellFormed ==
  [][\A p \in AbsFiles :
       (Ran("read_file") /\ ResolvesTo(p) /\ result'.ok /\ written[p] # NoWrite
          /\ WellFormed(written[p]))
       => result'.output = written[p]]_vars

\* C16 witness: a read_file has returned the well-formed content written before
C16_Witness ==
  /\ lastCall.name = "read_file" /\ result.ok
  /\ \E p \in AbsFiles :
       /\ resolvePath(Root, lastCall.path) = Value(p)
       /\ written[p] # NoWrite /\ WellFormed(written[p])
       /\ result.output = written[p]

\* C17: a call whose name is not in the manifest gets {ok:false, error} and the
\* call reaches neither the filesystem nor a subprocess; files and ReadSet stay.
C17_AllowListBeforeEffects ==
  [][(lastCall' # NoCall /\ manifest = "ok" /\ lastCall'.name \notin manifestTools)
     => (~result'.ok /\ result'.error = "Tool not in manifest" /\ effects' = {}
         /\ files' = files /\ dirs' = dirs /\ readSet' = readSet)]_vars

\* C17 witness: a tool of the fixed vocabulary was refused by the allow-list
C17_Witness ==
  /\ manifest = "ok" /\ lastCall.name \in KnownTools
  /\ lastCall.name \notin manifestTools
  /\ ~result.ok /\ result.error = "Tool not in manifest"

\* C18: executeLocalTool never rejects; it settles with ok, or with ok = false
\* and an error message.
C18_NeverThrows ==
  /\ ~result.thrown
  /\ result.ok \in BOOLEAN
  /\ ~result.ok <=> result.error # "none"

\* C18 witness: a call whose subprocess failed has settled with ok = false
C18_Witness ==
  /\ lastCall.name = "apply_patch" /\ "spawn" \in effects
  /\ ~result.ok /\ result.error = "git apply failed" /\ ~result.thrown

\* C19: the manifest is fetched at most once, and once the fetch has failed
\* every tool call fails on it.
C19_ManifestFetchedOnce ==
  /\ fetches <= 1
  /\ (manifest = "failed" /\ lastCall # NoCall)
       => (~result.ok /\ result.error = "manifest fetch failed")

\* C19 witness: after a failed fetch and with no call waiting, a further call
\* was refused and no second fetch was made
C19_Witness ==
  /\ manifest = "failed" /\ fetches = 1
  /\ \A c \in Callers : waiting[c] = NoCall
  /\ lastCall.name = "write_file" /\ ~result.ok

\* ---- conversation id ---------------------------------------------------------

\* C21: once conversationId is non-null, no conversation-id event of any frame
\* or stream changes it; it is set, and saved, only by a conversation-id event
\* that arrives while it is null, and then to the id that event supplies.
C21_ConversationIdFirstWriterWins ==
  [][/\ (lastEvent'.kind = "conversationId" /\ conversationId # "null"
           => conversationId' = conversationId /\ cfgConversationId' = cfgConversationId)
     /\ (conversationId' # conversationId
           => conversationId = "null" /\ lastEvent' = Ev("conversationId", <<conversationId'>>)
              /\ cfgConversationId' = conversationId')
     /\ (cfgConversationId' # cfgConversationId => conversationId' # conversationId)]_vars

\* an event supplied an id other than the one the session holds, and the session
\* kept its own
C21_Witness ==
  /\ lastEvent.kind = "conversationId"
  /\ conversationId \in ConvIds
  /\ lastEvent.val # <<conversationId>>
  /\ cfgConversationId = conversationId

\* the ids of the conversation-created entries of one parsed `2` payload
RECURSIVE EntryIds(_)
EntryIds(frames) ==
  IF frames = <<>> THEN <<>> ELSE ConvIdOf(Head(frames)) \o EntryIds(Tail(frames))

\* the ids of the conversation-created entries of the `2` lines of ls
RECURSIVE CreatedIds(_)
CreatedIds(ls) ==
  IF ls = <<>> THEN <<>>
  ELSE (IF StartsWith(Head(ls), "2") /\ ParseJSON(Payload(Head(ls))).ok
          THEN EntryIds(FramesOf(ParseJSON(Payload(Head(ls))))) ELSE <<>>)
       \o CreatedIds(Tail(ls))

\* the ids the conversation-id events of evs carry
RECURSIVE EmittedIds(_)
EmittedIds(evs) ==
  IF evs = <<>> THEN <<>>
  ELSE (IF Head(evs).kind = "conversationId" THEN Head(evs).val ELSE <<>>)
       \o EmittedIds(Tail(evs))

\* C22 (as claimed): the decoder fires one conversation-id event for every
\* conversation-created entry of every `2` payload it handles, in order.
C22_EventPerCreatedEntry ==
  EmittedIds(events) = CreatedIds(handled)

\* ---- ChatWorker: device login ------------------------------------------------

PollKinds == {"manual", "timer"}

PollOutcomes == {"token", "none", "error"}

\* what a login step leaves alone
LoginFrame ==
  /\ UNCHANGED <<items, conversationId, appId, chatMode, executionMode, streamingText,
                 stack, started, delivered, cfgConversationId, lastEvent>>
  /\ UNCHANGED <<decVars, toolVars, chainVars, ipcVars, mgrVars, extVars>>

\* constructor: `if (initialConfig.token) loginState = { status: "ready", ... }`
InitLogin ==
  /\ InitDecoderIdle /\ InitToolsIdle /\ InitChainIdle /\ InitIpcIdle /\ InitMgrIdle /\ InitExtIdle
  /\ items = <<>> /\ conversationId = "null" /\ appId = "null"
  /\ chatMode = "builder" /\ executionMode = "local"
  /\ streamingText = <<>> /\ lineOut = <<>>
  /\ stack = [f \in Flows |-> <<>>]
  /\ cfgConversationId = "null" /\ lastEvent = NoEvent /\ started = 0 /\ delivered = 0
  /\ cfgToken \in BOOLEAN
  /\ cfgDeviceCode \in BOOLEAN
  /\ tokenReady = cfgToken
  /\ loginStatus = IF cfgToken THEN "ready" ELSE "idle"
  /\ deviceCode = ""
  /\ pollingTimer = FALSE
  /\ polls = {}

\* `/login`: startLogin up to the await of startDeviceLogin
StartLogin ==
  /\ "start" \notin polls
  /\ loginStatus' = "pending"
  /\ deviceCode' = ""
  /\ cfgToken' = FALSE
  /\ cfgDeviceCode' = FALSE
  /\ tokenReady' = FALSE
  /\ polls' = polls \cup {"start"}
  /\ lineOut' = <<>>
  /\ UNCHANGED pollingTimer
  /\ LoginFrame

\* startDeviceLogin resolves: the codes are kept and saved, two lines, and
\* scheduleLoginPoll()
DeviceLoginOk ==
  /\ "start" \in polls
  /\ loginStatus' = "pending"
  /\ deviceCode' = "dc"
  /\ cfgDeviceCode' = TRUE
  /\ tokenReady' = FALSE
  /\ lineOut' = <<Line("login", <<"code">>), Line("login", <<"url">>)>>
  /\ pollingTimer' = TRUE
  /\ polls' = polls \ {"start"}
  /\ UNCHANGED cfgToken
  /\ LoginFrame

\* startDeviceLogin rejects: the catch of startLogin
DeviceLoginFails ==
  /\ "start" \in polls
  /\ loginStatus' = "error"
  /\ deviceCode' = ""
  /\ tokenReady' = FALSE
  /\ lineOut' = <<Line("login error", <<>>)>>
  /\ polls' = polls \ {"start"}
  /\ UNCHANGED <<pollingTimer, cfgToken, cfgDeviceCode>>
  /\ LoginFrame

\* pollLogin up to the await of pollDeviceLogin: the two early returns
PollStarts(kind) ==
  /\ polls' = IF loginStatus = "pending" /\ deviceCode # "" THEN polls \cup {kind}
              ELSE polls
  /\ lineOut' = <<>>
  /\ UNCHANGED <<loginStatus, deviceCode, cfgToken, cfgDeviceCode, tokenReady>>
  /\ LoginFrame

\* the timeout of scheduleLoginPoll fires: void this.pollLogin(false)
PollTimerFires ==
  /\ pollingTimer /\ "timer" \notin polls
  /\ pollingTimer' = FALSE
  /\ PollStarts("timer")

\* `/login check`: await this.pollLogin(true)
LoginCheck ==
  /\ "manual" \notin polls
  /\ UNCHANGED pollingTimer
  /\ PollStarts("manual")

\* the catch of pollLogin: a line for a manual poll and nothing else
PollError(kind) ==
  /\ lineOut' = IF kind = "manual" THEN <<Line("login error", <<>>)>> ELSE <<>>
  /\ UNCHANGED <<loginStatus, deviceCode, cfgToken, cfgDeviceCode, tokenReady,
                 pollingTimer>>

\* pollLogin after the await of pollDeviceLogin
PollResult(kind, out) ==
  /\ kind \in polls
  /\ polls' = polls \ {kind}
  /\ CASE out = "token" ->
            /\ loginStatus' = "ready"
            /\ deviceCode' = ""
            /\ cfgToken' = TRUE
            /\ cfgDeviceCode' = FALSE
            /\ tokenReady' = TRUE
            /\ lineOut' = <<Line("login", <<"approved">>)>>
            /\ UNCHANGED pollingTimer
       [] out = "none" ->
            /\ lineOut' = IF kind = "manual"
                            THEN <<Line("login", <<"still pending">>)>> ELSE <<>>
            /\ pollingTimer' = TRUE
            /\ UNCHANGED <<loginStatus, deviceCode, cfgToken, cfgDeviceCode, tokenReady>>
       [] out = "error" -> PollError(kind)
  /\ LoginFrame

NextLogin ==
  \/ StartLogin
  \/ DeviceLoginOk
  \/ DeviceLoginFails
  \/ PollTimerFires
  \/ LoginCheck
  \/ \E kind \in PollKinds, out \in PollOutcomes : PollResult(kind, out)

SpecLogin == InitLogin /\ [][NextLogin]_vars

\* this step ends a poll of the given kind
PollEnds(kind) == kind \in polls /\ kind \notin polls'

\* C23 (as claimed): a poll that ends while the login state is pending ends in
\* one of three ways: ready with the token saved and the device code cleared;
\* still pending with another poll scheduled; or the error state, with a line
\* only when the poll was manual.
C23_PollOutcomes ==
  [][\A kind \in PollKinds :
       PollEnds(kind) /\ loginStatus = "pending" =>
         \/ /\ loginStatus' = "ready" /\ cfgToken' /\ ~cfgDeviceCode' /\ deviceCode' = ""
         \/ /\ loginStatus' = "pending" /\ pollingTimer'
         \/ /\ loginStatus' = "error" /\ (lineOut' # <<>> => kind = "manual")]_vars

\* ---- one turn end to end: two text deltas, then one assistant message --------

\* the worker holds a token; the user has sent nothing yet
InitScenario == InitSession /\ tokenReady

\* The user sends one message; the request is accepted; the endpoint streams two
\* text deltas, then one `2` frame holding one assistant message item, and ends.
NextScenario ==
  \/ started = 0 /\ Input(1)
  \/ Submit(1)
  \/ RequestOk(1)
  \/ \E delta \in Deltas : delivered < 2 /\ TextDelta(1, delta)
  \/ delivered = 2 /\ ItemsEvent(1, <<"AM">>)
  \/ HandleItem(1)
  \/ delivered = 3 /\ StreamEnd(1)

SpecScenario == InitScenario /\ [][NextScenario]_vars

\* C24: in that turn the live buffer is d1 after the first delta and d1 d2 after
\* the second, and when the turn completes items is exactly the user item and
\* the assistant item, and the live buffer is empty.
C24_EndToEndTurn ==
  [][/\ (delivered = 0 /\ delivered' = 1 => streamingText' = lastEvent'.val)
     /\ (delivered = 1 /\ delivered' = 2
           => streamingText' = streamingText \o lastEvent'.val /\ Len(streamingText) = 1)
     /\ (Running(1) /\ ~Running(1)'
           => /\ items' = <<UserItem(1), ItemOfKind("AM", 3)>>
              /\ streamingText' = <<>>)]_vars

\* the turn of two deltas and one assistant item has completed
C24_Witness ==
  /\ started = 1 /\ ~Running(1) /\ delivered = 3
  /\ items = <<UserItem(1), ItemOfKind("AM", 3)>>
  /\ streamingText = <<>>
  /\ lineOut = <<Line("assistant", <<"m">>)>>

\* ---- the live buffer and its flush ---------------------------------------------

\* this step is the normal end of a stream whose live buffer is not blank
FlushesBuffer ==
  \E f \in Flows :
    /\ Running(f) /\ Top(f).pc = "stream"
    /\ stack' = [stack EXCEPT ![f] = Returned(@)]
    /\ lineOut' = <<Line("assistant", streamingText)>>

\* C25 (as claimed): every text delta and every reasoning delta is appended to
\* the live buffer, and the end of a stream with a non-blank live buffer appends
\* exactly one assistant message item to items.
C25_DeltasAccumulateAndFlushAsItem ==
  [][/\ (lastEvent'.kind \in {"text", "reasoning"}
           => streamingText' = streamingText \o lastEvent'.val)
     /\ (FlushesBuffer
           => /\ Len(items') = Len(items) + 1
              /\ SubSeq(items', 1, Len(items)) = items
              /\ Last(items').type = "message" /\ Last(items').role = "assistant")]_vars

\* ---- tool_call items -----------------------------------------------------------

\* this step handles a tool_call item of flow f (one turn of the onItems loop)
HandlesToolCall(f) ==
  /\ Running(f) /\ Top(f).pc = "items" /\ Head(Top(f).batch).type = "tool_call"
  /\ stack'[f] # stack[f]

\* this step is the return of executeLocalTool into handleToolCall in flow f
SandboxReturns(f) ==
  /\ Running(f) /\ Top(f).pc = "tool"
  /\ stack'[f] # stack[f]

\* this step of flow f calls chatRequest with action tool_result
SendsFollowUp(f) ==
  /\ Len(stack'[f]) = Len(stack[f]) + 1
  /\ Last(stack'[f]) = Frame("sendToolResult", "response", <<>>, 0)

\* C26 (as claimed): outside local execution mode a tool_call starts no sandbox
\* operation and no follow-up request; in local execution mode the tool_output
\* of the sandbox operation is appended to items, with no user item, and sent
\* in a follow-up request.
C26_ToolCallOnlyInLocalMode ==
  [][\A f \in Flows :
       /\ (HandlesToolCall(f) /\ ~LocalMode
             => Last(stack'[f]).pc # "tool" /\ ~SendsFollowUp(f))
       /\ (SandboxReturns(f)
             => /\ LocalMode
                /\ items' = Append(items, ToolOutputItem(Top(f).call))
                /\ SendsFollowUp(f))]_vars

\* ---- one user turn as a chain of nested response streams -----------------------
\* handleToolCall awaits sendToolResult, which awaits the consumeStream of the
\* follow-up response, whose onItems may await handleToolCall again: the streams
\* of one turn nest without a limit.  chain holds the innermost MaxDepth of them.

ChainEvents == {"other", "conversationId", "app_created"}

ChainFrame ==
  /\ UNCHANGED <<items, chatMode, executionMode, tokenReady, streamingText, lineOut,
                 stack, started, delivered, cfgConversationId, lastEvent>>
  /\ UNCHANGED <<decVars, toolVars, loginVars, ipcVars, mgrVars, extVars>>

InitChain ==
  /\ InitWorker /\ InitDecoderIdle /\ InitToolsIdle
  /\ InitLoginIdle /\ InitChainIdle /\ InitIpcIdle /\ InitMgrIdle /\ InitExtIdle

\* sendMessage with a token, the response is OK: the first stream opens
UserTurn ==
  /\ chain = <<>> /\ ~chainDeep
  /\ token
  /\ chain' = <<0>>
  /\ UNCHANGED <<chainDeep, conversationId, appId>>
  /\ ChainFrame

\* the innermost stream delivers an event that is not a tool_call; only the
\* stream of sendMessage has an onConversationId
StreamEvent(kind) ==
  /\ chain # <<>> /\ Last(chain) < MaxStreamEvents
  /\ chain' = WithTop(chain, Last(chain) + 1)
  /\ conversationId' =
       IF kind = "conversationId" /\ Len(chain) = 1 /\ ~chainDeep
          /\ Captures("sendMessage", conversationId)
       THEN "c1" ELSE conversationId
  /\ appId' = IF kind = "app_created" /\ appId = "null" THEN "app1" ELSE appId
  /\ UNCHANGED chainDeep
  /\ ChainFrame

\* the follow-up stream opens above the innermost one
Nested(ch) == IF Len(ch) < MaxDepth THEN Append(ch, 0) ELSE Append(Tail(ch), 0)

\* the innermost stream delivers a tool_call: handleToolCall, executeLocalTool
\* and sendToolResult; ok: the follow-up request resolves with an OK response
ToolCallEvent(ok) ==
  /\ chain # <<>> /\ Last(chain) < MaxStreamEvents
  /\ \E counted \in {WithTop(chain, Last(chain) + 1)} :
       IF ToolCallGate = "run" /\ ToolResultGate = "send" /\ ok
       THEN /\ chain' = Nested(counted)
            /\ chainDeep' = (chainDeep \/ Len(counted) = MaxDepth)
       ELSE /\ chain' = counted
            /\ UNCHANGED chainDeep
  /\ UNCHANGED <<conversationId, appId>>
  /\ ChainFrame

\* the innermost stream ends or fails: consumeStream settles and the call
\* returns into the stream below.  When the last stream chain holds ends, the
\* forgotten streams below it, finite as well, are taken to end without another
\* tool_call: the turn is over.
ChainStreamEnds ==
  /\ chain # <<>>
  /\ chain' = Front(chain)
  /\ chainDeep' = (chainDeep /\ Len(chain) > 1)
  /\ UNCHANGED <<conversationId, appId>>
  /\ ChainFrame

NextChain ==
  \/ UserTurn
  \/ \E kind \in ChainEvents : StreamEvent(kind)
  \/ \E ok \in BOOLEAN : ToolCallEvent(ok)
  \/ ChainStreamEnds

\* the worker and the endpoint keep going: whatever can happen next does happen
SpecChain == InitChain /\ [][NextChain]_vars /\ WF_vars(NextChain)

\* C27 (as claimed): every turn whose streams are all finite returns the worker
\* to awaiting input.
C27_TurnTerminates ==
  (chain # <<>>) ~> (chain = <<>>)

\* ---- IPC line reader: attachJsonLineReader ---------------------------------------
\* Bytes and characters are the lexemes of the Frame Decoder: E1 E2 are the two
\* bytes of one character EA, FFFD is the replacement character; "{" text "}"
\* stands for a JSON object whose one string holds text.

\* data.toString("utf8"): every read is decoded on its own, to the end
toStringUtf8(bytes) ==
  LET dec == DecodeChunk(FALSE, bytes)
  IN dec.out \o (IF dec.pend THEN <<"FFFD">> ELSE <<>>)

IpcChars == {"a", "SP", "EA", "FFFD"}

\* JSON.parse(line) succeeds
IsJsonObject(line) ==
  Len(line) >= 2 /\ line[1] = "{" /\ Last(line) = "}" /\ AllIn(Inner(line), IpcChars)

\* position of the first "\n" of text, 0 when there is none: buffer.indexOf("\n")
IndexOfNL(text) ==
  IF \E i \in 1..Len(text) : text[i] = "NL"
  THEN CHOOSE i \in 1..Len(text) :
         text[i] = "NL" /\ \A j \in 1..(i - 1) : text[j] # "NL"
  ELSE 0

\* the while loop of the "data" handler: the messages handed to onMessage and
\* what stays in buffer
RECURSIVE DrainLines(_, _)
DrainLines(buffer, out) ==
  LET idx == IndexOfNL(buffer) IN
  IF idx = 0 THEN [messages |-> out, buffer |-> buffer]
  ELSE LET line == Trim(SubSeq(buffer, 1, idx - 1))
           rest == SubSeq(buffer, idx + 1, Len(buffer))
       IN DrainLines(rest,
            IF line # <<>> /\ IsJsonObject(line) THEN Append(out, Inner(line)) ELSE out)

IpcLineSet ==
  { <<"{", "a", "}">>,                \* {"text":"a"}
    <<"{", "E1", "E2", "}">>,         \* {"text":"<two-byte char>"}
    <<"SP", "{", "a", "SP", "}">>,     \* leading blank, {"text":"a "}
    <<"{", "a">>,                     \* not valid JSON
    <<"SP">>,                         \* blank line
    <<>> }                            \* empty line

\* a line the peer has not finished
IpcTailSet == { <<>>, <<"{", "E1", "E2">> }

RECURSIVE IpcStreamsOf(_)
IpcStreamsOf(n) ==
  IF n = 0 THEN {<<>>}
  ELSE LET S == IpcStreamsOf(n - 1)
       IN S \cup { s \o l \o <<"NL">> : s \in S, l \in IpcLineSet }

IpcStreams == { s \o t : s \in IpcStreamsOf(MaxIpcLines), t \in IpcTailSet }

InitIpc ==
  /\ InitDecoderIdle /\ InitWorkerIdle /\ InitToolsIdle
  /\ InitLoginIdle /\ InitChainIdle /\ InitMgrIdle /\ InitExtIdle
  /\ ipcStream \in IpcStreams
  /\ ipcPos = 0
  /\ ipcBuffer = <<>>
  /\ ipcMessages = <<>>

\* socket.on("data"): one read of k bytes
IpcData(k) ==
  /\ ipcPos + k <= Len(ipcStream)
  /\ \E d \in {DrainLines(ipcBuffer
                          \o toStringUtf8(SubSeq(ipcStream, ipcPos + 1, ipcPos + k)),
                          <<>>)} :
       /\ ipcMessages' = ipcMessages \o d.messages
       /\ ipcBuffer' = d.buffer
  /\ ipcPos' = ipcPos + k
  /\ UNCHANGED ipcStream
  /\ UNCHANGED <<decVars, workerVars, toolVars, loginVars, chainVars, mgrVars, extVars>>

NextIpc == \E k \in 1..Len(ipcStream) : IpcData(k)

SpecIpc == InitIpc /\ [][NextIpc]_vars

\* the messages of bytes that arrive in one read
OneRead(bytes) == DrainLines(toStringUtf8(bytes), <<>>).messages

\* C28 (as claimed): however the bytes are split into reads, the messages
\* delivered are those of the complete lines received so far, each once, in
\* order and unchanged: the same as when the bytes arrive in one read.
C28_SplitInvariance ==
  ipcMessages = OneRead(SubSeq(ipcStream, 1, ipcPos))

\* ---- Supervisor: the Manager component ----------------------------------------
\* Input text is a sequence of tokens: "/", "SP" and words.

\* `${mode}-${Date.now()}`: the n-th tab spawned
TabId(mode, n) == [mode |-> mode, n |-> n]

\* position of the first blank of text, 0 when there is none
IndexOfSP(text) ==
  IF \E i \in 1..Len(text) : text[i] = "SP"
  THEN CHOOSE i \in 1..Len(text) :
         text[i] = "SP" /\ \A j \in 1..(i - 1) : text[j] # "SP"
  ELSE 0

\* text.split(/\s+/)[0] and [1]
FirstWord(text) ==
  IF IndexOfSP(text) = 0 THEN text ELSE SubSeq(text, 1, IndexOfSP(text) - 1)
RestWords(text) ==
  IF IndexOfSP(text) = 0 THEN <<>>
  ELSE TrimLeft(SubSeq(text, IndexOfSP(text) + 1, Len(text)))

\* const [command, ...rest] = text.slice(1).trim().split(/\s+/)
CommandOf(text) ==
  IF text = <<>> \/ Head(text) # "/" THEN <<>> ELSE FirstWord(Trim(Tail(text)))
ArgOf(text) ==
  IF text = <<>> \/ Head(text) # "/" THEN <<>> ELSE FirstWord(RestWords(Trim(Tail(text))))

\* handleManagerCommand returns true
IsManagerCommand_NewOnly(text) == CommandOf(text) = <<"new">>
IsManagerCommand(text) ==
  CommandOf(text) \in { <<"new">>, <<"history">>, <<"tabs">>, <<"tab">> }

\* Number(value) for the words of the model
NumberOf(word) ==
  IF word = <<"1">> THEN 1 ELSE IF word = <<"2">> THEN 2 ELSE IF word = <<"9">> THEN 9 ELSE 0

InTabs(ts, id) == \E i \in 1..Len(ts) : ts[i] = id

\* tabs.find((tab) => tab.id === activeTabId) ?? tabs[0]
ActiveTab(ts, id) ==
  IF InTabs(ts, id) THEN id ELSE IF ts # <<>> THEN ts[1] ELSE NoTab

\* tabs.find((tab) => tab.mode === "history")
HistoryTab(ts) ==
  IF \E i \in 1..Len(ts) : ts[i].mode = "history"
  THEN ts[CHOOSE i \in 1..Len(ts) :
            ts[i].mode = "history" /\ \A j \in 1..(i - 1) : ts[j].mode # "history"]
  ELSE NoTab

SockWrite(tab, text) == [tab |-> tab, text |-> text]

\* useEffect(..., [activeTabId]): when activeTabId has changed and the active tab
\* is a history tab with a socket, it is sent "refresh"
RefreshEffect(ts, oldId, newId, socks) ==
  IF newId # oldId /\ ActiveTab(ts, newId).mode = "history"
     /\ ActiveTab(ts, newId) \in socks
  THEN <<SockWrite(ActiveTab(ts, newId), <<"refresh">>)>>
  ELSE <<>>

\* the activeTabId handleManagerCommand leaves (spawnTab sets the new tab's id)
CommandActive(text) ==
  IF CommandOf(text) = <<"new">> THEN TabId("chat", Len(tabs) + 1)
  ELSE IF CommandOf(text) = <<"history">>
       THEN IF HistoryTab(tabs) # NoTab THEN HistoryTab(tabs)
            ELSE TabId("history", Len(tabs) + 1)
  ELSE IF CommandOf(text) = <<"tab">> /\ ArgOf(text) # <<>>
          /\ NumberOf(ArgOf(text)) \in 1..Len(tabs)
       THEN tabs[NumberOf(ArgOf(text))]
  ELSE activeTabId

\* the tab handleManagerCommand spawns, NoTab when it spawns none
CommandSpawns(text) ==
  IF CommandOf(text) = <<"new">> THEN TabId("chat", Len(tabs) + 1)
  ELSE IF CommandOf(text) = <<"history">> /\ HistoryTab(tabs) = NoTab
       THEN TabId("history", Len(tabs) + 1)
  ELSE NoTab

MgrInputs ==
  { <<"hi">>,
    <<"SP", "hi">>,
    <<"/", "help">>,
    <<"/">>,
    <<"/", "new">>,
    <<"SP", "/", "new", "SP">>,
    <<"/", "SP", "new">>,
    <<"/", "history">>,
    <<"/", "tabs">>,
    <<"/", "tab">>,
    <<"/", "tab", "SP", "1">>,
    <<"/", "tab", "SP", "SP", "2">>,
    <<"/", "tab", "SP", "9">> }

MgrFrame ==
  UNCHANGED <<decVars, workerVars, toolVars, loginVars, chainVars, ipcVars, extVars>>

InitManager ==
  /\ InitDecoderIdle /\ InitWorkerIdle /\ InitToolsIdle
  /\ InitLoginIdle /\ InitChainIdle /\ InitIpcIdle /\ InitMgrIdle /\ InitExtIdle

\* the mount effect once the IPC server listens: spawnTab("history"),
\* spawnTab("chat")
MgrStart ==
  /\ tabs = <<>> /\ children = {}
  /\ tabs' = <<TabId("history", 1), TabId("chat", 2)>>
  /\ children' = {TabId("history", 1), TabId("chat", 2)}
  /\ running' = {TabId("history", 1), TabId("chat", 2)}
  /\ activeTabId' = TabId("chat", 2)
  /\ sockOut' = RefreshEffect(tabs', activeTabId, activeTabId', childSockets)
  /\ submitted' = NoSubmit
  /\ UNCHANGED childSockets
  /\ MgrFrame

\* a worker connects and sends "register".  The handler was created by the
\* mount effect, so the activeTabId it tests is the null of the first render.
Register(t) ==
  /\ t \in running /\ t \notin childSockets
  /\ childSockets' = childSockets \cup {t}
  /\ activeTabId' = t
  /\ sockOut' = RefreshEffect(tabs, activeTabId, activeTabId', childSockets')
  /\ submitted' = NoSubmit
  /\ UNCHANGED <<tabs, children, running>>
  /\ MgrFrame

\* ctrl/alt + digit
KeySwitch(i) ==
  /\ i \in 1..Len(tabs)
  /\ activeTabId' = tabs[i]
  /\ sockOut' = RefreshEffect(tabs, activeTabId, activeTabId', childSockets)
  /\ submitted' = NoSubmit
  /\ UNCHANGED <<tabs, childSockets, children, running>>
  /\ MgrFrame

\* onSubmit(value)
SubmitInput(value) ==
  /\ CommandSpawns(Trim(value)) # NoTab => Len(tabs) < MaxTabs
  /\ submitted' = value
  /\ IF ActiveTab(tabs, activeTabId) = NoTab
     THEN /\ sockOut' = <<>>
          /\ UNCHANGED <<tabs, activeTabId, children, running>>
     ELSE IF IsManagerCommand(Trim(value))
     THEN \E new \in {CommandSpawns(Trim(value))} :
            /\ tabs' = IF new # NoTab THEN Append(tabs, new) ELSE tabs
            /\ children' = IF new # NoTab THEN children \cup {new} ELSE children
            /\ running' = IF new # NoTab THEN running \cup {new} ELSE running
            /\ activeTabId' = CommandActive(Trim(value))
            /\ sockOut' = RefreshEffect(tabs', activeTabId, activeTabId', childSockets)
     ELSE /\ sockOut' = IF ActiveTab(tabs, activeTabId) \in childSockets
                          THEN <<SockWrite(ActiveTab(tabs, activeTabId), value)>>
                          ELSE <<>>
          /\ UNCHANGED <<tabs, activeTabId, children, running>>
  /\ UNCHANGED childSockets
  /\ MgrFrame

\* a worker process exits and its socket closes: the Manager listens neither for
\* the 'exit' of the child nor for the 'close' of the socket
WorkerExits(t) ==
  /\ t \in running
  /\ running' = running \ {t}
  /\ sockOut' = <<>>
  /\ submitted' = NoSubmit
  /\ UNCHANGED <<tabs, activeTabId, childSockets, children>>
  /\ MgrFrame

MgrTabIds == { TabId(m, n) : m \in {"history", "chat"}, n \in 1..MaxTabs }

NextManager ==
  \/ MgrStart
  \/ \E t \in MgrTabIds : Register(t)
  \/ \E i \in 1..MaxTabs : KeySwitch(i)
  \/ \E value \in MgrInputs : SubmitInput(value)
  \/ \E t \in MgrTabIds : WorkerExits(t)

SpecManager == InitManager /\ [][NextManager]_vars

\* the names of the supervisor's meta-commands
MetaCommandNames == { <<"new">>, <<"history">>, <<"tabs">>, <<"tab">> }

\* the writes of the last step that carry the submitted value
InputWrites == { i \in 1..Len(sockOut) : sockOut[i].text = submitted }

\* C29: the value submitted is written to at most one worker socket, the one
\* bound to the tab active when it was submitted, and a value that names a
\* meta-command (/new, /history, /tabs, /tab) is written to no socket.
C29_InputToActiveTabOnly ==
  [][submitted' # NoSubmit =>
       /\ Cardinality(InputWrites') <= 1
       /\ \A i \in InputWrites' :
            /\ sockOut'[i].tab = ActiveTab(tabs, activeTabId)
            /\ sockOut'[i].tab \in childSockets
       /\ (CommandOf(Trim(submitted')) \in MetaCommandNames => InputWrites' = {})]_vars

\* a meta-command switched to the history tab: nothing carries the submitted
\* value, the history worker is sent "refresh"
C29_Witness ==
  /\ submitted = <<"/", "history">>
  /\ sockOut = <<SockWrite(TabId("history", 1), <<"refresh">>)>>
  /\ activeTabId = TabId("history", 1)

\* C30 (as claimed): a worker that has exited is neither in the tab list nor in
\* the tabId-to-socket binding.
C30_TabGoneWithWorker ==
  \A t \in children \ running : ~InTabs(tabs, t) /\ t \notin childSockets

\* ---- cancellation keeps what was delivered -------------------------------------

\* the items the onItems calls of evs have passed, in order
RECURSIVE PassedItems(_)
PassedItems(evs) ==
  IF evs = <<>> THEN <<>>
  ELSE (IF Head(evs).kind = "items" THEN Head(evs).val ELSE <<>>)
       \o PassedItems(Tail(evs))

\* C31: no step takes back a callback that was fired, and the step in which
\* the stop is observed delivers all items of the `2` line it handles: the
\* items passed to onItems after the step are those passed before it followed
\* by every item of that line.
C31_CancelRetractsNothing ==
  [][/\ SubSeq(events', 1, Len(events)) = events
     /\ (~cancelled /\ cancelled' /\ StartsWith(Head(lines), "2")
           /\ ParseJSON(Payload(Head(lines))).ok
         => PassedItems(events')
              = PassedItems(events)
                \o normalizeDataFrames(ParseJSON(Payload(Head(lines)))).items)]_vars

\* the stream was cancelled at a `2` line that carried two items, after an
\* earlier line had fired its callback; all of it is still delivered
C31_Witness ==
  /\ status = "stopped"
  /\ Len(handled) = 2
  /\ handled[2] = <<"2", ":", "{", "U", "R", "}">>
  /\ PassedItems(events) = <<"i2", "i3">>
  /\ Len(events) = 4
  /\ Last(events) = Ev("stop", <<>>)

\* ---- deployTool ----------------------------------------------------------
\* lines git status prints at most
MaxGitLines == 2

\* one porcelain line: the two status columns, then the path from column 3 on;
\* the empty line is what split("\n") leaves after the last newline
BlankLine == [code |-> <<>>, path |-> ""]

GitCodes ==
  { <<"M", " ">>, <<" ", "M">>, <<"?", "?">>, <<"D", " ">>, <<" ", "D">>, <<"A", "D">> }

GitPaths == {"a", "b"}

GitLineSet == { [code |-> c, path |-> p] : c \in GitCodes, p \in GitPaths } \cup {BlankLine}

RECURSIVE GitOutputs(_)
GitOutputs(n) ==
  IF n = 0 THEN {<<>>}
  ELSE LET S == GitOutputs(n - 1) IN S \cup { Append(s, l) : s \in S, l \in GitLineSet }

\* status.includes("D"), on the X column alone
includesD_IndexOnly(code) == Len(code) > 0 /\ code[1] = "D"
\* status.includes("D")
includesD(code) == \E i \in 1..Len(code) : code[i] = "D"

Collected(fs) == [ok |-> TRUE, files |-> fs, error |-> ""]
CollectFails(msg) == [ok |-> FALSE, files |-> NoSnapshot, error |-> msg]

\* the loop of collectChangedFiles over the lines left, fs = the files read
RECURSIVE CollectLoop(_, _, _)
CollectLoop(ls, fs, bad) ==
  IF ls = <<>>
  THEN IF fs = {} THEN CollectFails("No changes detected") ELSE Collected(fs)
  ELSE LET l == Head(ls) IN
       IF l.code = <<>> THEN CollectLoop(Tail(ls), fs, bad)
       ELSE IF includesD(l.code) THEN CollectFails("Deletion not supported")
       ELSE IF l.path \in bad THEN CollectFails("ENOENT")
       ELSE CollectLoop(Tail(ls), fs \cup {l.path}, bad)

collectChangedFiles(code, ls, bad) ==
  IF code # 0 THEN CollectFails("git status failed") ELSE CollectLoop(ls, {}, bad)

DeployFrame ==
  UNCHANGED <<decVars, workerVars, toolVars, loginVars, chainVars, ipcVars, mgrVars,
              cacheVars, cmdVars, shareVars, cbVars>>

InitDeploy ==
  /\ InitDecoderIdle /\ InitWorkerIdle /\ InitToolsIdle
  /\ InitLoginIdle /\ InitChainIdle /\ InitIpcIdle /\ InitMgrIdle /\ InitCacheIdle
  /\ InitCmdIdle /\ InitShareIdle /\ InitCbIdle
  /\ gitLines \in GitOutputs(MaxGitLines)
  /\ gitExit \in {0, 1}
  /\ unreadable \in SUBSET {"b"}
  /\ deployPc = "idle" /\ snapshot = NoSnapshot /\ requests = <<>> /\ deployErr = ""

\* deployTool up to its first await of the API: collectChangedFiles, then the
\* POST of commitFiles
DeployCall ==
  /\ deployPc = "idle"
  /\ \E c \in {collectChangedFiles(gitExit, gitLines, unreadable)} :
       IF c.ok
       THEN /\ snapshot' = c.files
            /\ requests' = Append(requests, [kind |-> "commit", files |-> c.files])
            /\ deployPc' = "commit"
            /\ UNCHANGED deployErr
       ELSE /\ deployPc' = "failed"
            /\ deployErr' = c.error
            /\ UNCHANGED <<snapshot, requests>>
  /\ UNCHANGED <<gitLines, gitExit, unreadable>>
  /\ DeployFrame

\* the commit response arrives: commitFiles returns or throws; on return the
\* POST of deployApp is sent
CommitSettles(ok) ==
  /\ deployPc = "commit"
  /\ IF ok
     THEN /\ requests' = Append(requests, [kind |-> "deploy", files |-> NoSnapshot])
          /\ deployPc' = "deploy"
          /\ UNCHANGED deployErr
     ELSE /\ deployPc' = "failed"
          /\ deployErr' = "Commit failed"
          /\ UNCHANGED requests
  /\ UNCHANGED <<gitLines, gitExit, unreadable, snapshot>>
  /\ DeployFrame

\* the deployment response arrives: deployApp returns or throws
DeploymentSettles(ok) ==
  /\ deployPc = "deploy"
  /\ deployPc' = IF ok THEN "done" ELSE "failed"
  /\ deployErr' = IF ok THEN deployErr ELSE "Deploy failed"
  /\ UNCHANGED <<gitLines, gitExit, unreadable, snapshot, requests>>
  /\ DeployFrame

NextDeploy ==
  \/ DeployCall
  \/ \E ok \in BOOLEAN : CommitSettles(ok)
  \/ \E ok \in BOOLEAN : DeploymentSettles(ok)

SpecDeploy == InitDeploy /\ [][NextDeploy]_vars

HasDeletion(ls) == \E i \in 1..Len(ls) : \E j \in 1..Len(ls[i].code) : ls[i].code[j] = "D"

NoChangedFile(ls) == \A i \in 1..Len(ls) : ls[i].code = <<>>

RequestKinds(rs) == [i \in 1..Len(rs) |-> rs[i].kind]

\* C32: the deploy tool works in the order snapshot, commit, deployment: the
\* commit request carries the snapshot, the deployment request is sent only
\* after the commit came back successfully, and a working tree with a deleted
\* file or with no changed file fails before any request is sent.
C32_DeployOrder ==
  /\ RequestKinds(requests) \in {<<>>, <<"commit">>, <<"commit", "deploy">>}
  /\ (requests # <<>> =>
        /\ snapshot # NoSnapshot
        /\ requests[1].files = snapshot
        /\ snapshot = { gitLines[i].path : i \in { j \in 1..Len(gitLines) : gitLines[j].code # <<>> } })
  /\ (Len(requests) = 2 => deployPc \in {"deploy", "done", "failed"} /\ deployErr # "Commit failed")
  /\ (deployErr = "Commit failed" => RequestKinds(requests) = <<"commit">>)
  /\ ((HasDeletion(gitLines) \/ NoChangedFile(gitLines)) /\ deployPc # "idle" =>
        deployPc = "failed" /\ requests = <<>>)

\* C32 witness: two changed files were committed, then deployed
C32_Witness ==
  /\ deployPc = "done"
  /\ snapshot = {"a", "b"}
  /\ RequestKinds(requests) = <<"commit", "deploy">>

\* ---- the app/tool list cache ----------------------------------------------
\* the clock stops here
MaxClock == 2

Kinds == {"apps", "tools"}

\* Date.parse(updatedAt) is NaN for the timestamp -1 of the model
isFresh_Inclusive(updatedAt, ttlMs, now) ==
  IF updatedAt = -1 THEN FALSE ELSE now - updatedAt <= ttlMs
isFresh(updatedAt, ttlMs, now) ==
  IF updatedAt = -1 THEN FALSE ELSE now - updatedAt < ttlMs

\* getCachedApps / getCachedTools on the store just loaded: the list or "null"
getCached(store, k, ttlMs, now) ==
  LET entry == store[k] IN
  IF entry = NoEntry \/ ~isFresh(entry.updatedAt, ttlMs, now) THEN "null"
  ELSE IF entry.items = "NotArray" THEN "null" ELSE entry.items

\* what the file may hold when a client starts
EntrySet ==
  {NoEntry}
    \cup { [items |-> "L0", updatedAt |-> t] : t \in {-1, 0} }
    \cup { [items |-> "NotArray", updatedAt |-> 0] }

ApiLists == {"L1"}

CacheFrame ==
  UNCHANGED <<decVars, workerVars, toolVars, loginVars, chainVars, ipcVars, mgrVars,
              deployVars, cmdVars, shareVars, cbVars>>

InitCache ==
  /\ InitDecoderIdle /\ InitWorkerIdle /\ InitToolsIdle
  /\ InitLoginIdle /\ InitChainIdle /\ InitIpcIdle /\ InitMgrIdle /\ InitDeployIdle
  /\ InitCmdIdle /\ InitShareIdle /\ InitCbIdle
  /\ cacheFile \in [Kinds -> EntrySet]
  /\ clock = 0
  /\ ttl \in {1, 2}
  /\ fetchSt = [k \in Kinds |-> IdleFetch]

\* fetchAppsWithCache / fetchToolsWithCache up to the API request: with the
\* cache in use and no forced refresh, the entry read from the file decides
FetchStart(k, force, useCache) ==
  /\ fetchSt[k].pc = "idle"
  /\ \E c \in {getCached(cacheFile, k, ttl, clock)} :
       fetchSt' = [fetchSt EXCEPT ![k] =
         IF useCache /\ ~force
         THEN IF c # "null"
              THEN [IdleFetch EXCEPT !.pc = "done", !.found = "fresh", !.out = c]
              ELSE [IdleFetch EXCEPT !.pc = "api", !.found = "stale", !.requested = TRUE]
         ELSE [IdleFetch EXCEPT !.pc = "api", !.force = force, !.useCache = useCache,
                                !.found = "skipped", !.requested = TRUE]]
  /\ UNCHANGED <<cacheFile, clock, ttl>>
  /\ CacheFrame

\* listApps / listUserTools returns
ApiReturns(k, list) ==
  /\ fetchSt[k].pc = "api"
  /\ fetchSt' = [fetchSt EXCEPT ![k].out = list,
                                ![k].pc = IF fetchSt[k].useCache THEN "load" ELSE "done"]
  /\ UNCHANGED <<cacheFile, clock, ttl>>
  /\ CacheFrame

\* listApps / listUserTools throws
ApiFails(k) ==
  /\ fetchSt[k].pc = "api"
  /\ fetchSt' = [fetchSt EXCEPT ![k].pc = "failed"]
  /\ UNCHANGED <<cacheFile, clock, ttl>>
  /\ CacheFrame

\* setCachedApps / setCachedTools: loadCache, then the entry of this kind
\* replaced in the loaded store
SetLoad(k) ==
  /\ fetchSt[k].pc = "load"
  /\ fetchSt' = [fetchSt EXCEPT
       ![k].store = [cacheFile EXCEPT ![k] = [items |-> fetchSt[k].out, updatedAt |-> clock]],
       ![k].pc = "save"]
  /\ UNCHANGED <<cacheFile, clock, ttl>>
  /\ CacheFrame

\* saveCache(store): the whole store is written
SetSave(k) ==
  /\ fetchSt[k].pc = "save"
  /\ cacheFile' = fetchSt[k].store
  /\ fetchSt' = [fetchSt EXCEPT ![k].pc = "done"]
  /\ UNCHANGED <<clock, ttl>>
  /\ CacheFrame

\* the caller has the list (or the error) and may fetch again
FetchReturns(k) ==
  /\ fetchSt[k].pc \in {"done", "failed"}
  /\ fetchSt' = [fetchSt EXCEPT ![k] = IdleFetch]
  /\ UNCHANGED <<cacheFile, clock, ttl>>
  /\ CacheFrame

Tick ==
  /\ clock < MaxClock
  /\ clock' = clock + 1
  /\ UNCHANGED <<cacheFile, ttl, fetchSt>>
  /\ CacheFrame

NextCache ==
  \/ \E k \in Kinds, force \in BOOLEAN, useCache \in BOOLEAN : FetchStart(k, force, useCache)
  \/ \E k \in Kinds, list \in ApiLists : ApiReturns(k, list)
  \/ \E k \in Kinds : ApiFails(k)
  \/ \E k \in Kinds : SetLoad(k)
  \/ \E k \in Kinds : SetSave(k)
  \/ \E k \in Kinds : FetchReturns(k)
  \/ Tick

SpecCache == InitCache /\ [][NextCache]_vars

\* C33: an entry whose age is at least the TTL is never returned and the fetch
\* that met it requests the API and stores the list the API returned; a fresh
\* entry is returned without a request to the API unless the refresh is forced.
C33_CacheFreshness ==
  [][\A k \in Kinds :
       /\ (fetchSt[k].pc = "idle" /\ fetchSt'[k].pc # "idle" =>
             LET e == cacheFile[k]
                 old == e = NoEntry \/ e.updatedAt = -1 \/ clock - e.updatedAt >= ttl
             IN /\ (fetchSt'[k].found = "fresh" =>
                      ~old /\ fetchSt'[k].out = e.items /\ ~fetchSt'[k].requested
                      /\ fetchSt'[k].pc = "done")
                /\ (fetchSt'[k].found # "skipped" /\ old =>
                      fetchSt'[k].pc = "api" /\ fetchSt'[k].requested)
                /\ (fetchSt'[k].found # "skipped" /\ ~old /\ e.items # "NotArray" =>
                      fetchSt'[k].found = "fresh")
                /\ (fetchSt'[k].force => fetchSt'[k].requested))
       /\ (fetchSt[k].pc = "save" /\ fetchSt'[k].pc = "done" =>
             /\ cacheFile'[k].items = fetchSt[k].out
             /\ fetchSt[k].out \in ApiLists
             /\ fetchSt[k].requested
             /\ isFresh(cacheFile'[k].updatedAt, ttl, cacheFile'[k].updatedAt))
  ]_vars

\* C33 witness: a fetch met an entry of age >= TTL, asked the API and stored
\* the new list
C33_Witness ==
  /\ fetchSt["apps"].pc = "done"
  /\ fetchSt["apps"].found = "stale"
  /\ fetchSt["apps"].requested
  /\ fetchSt["apps"].out = "L1"
  /\ cacheFile["apps"].items = "L1"
  /\ clock >= ttl

\* ---- background login polling under fair scheduling -------------------------
\* an armed timeout fires, and every request to the login endpoint settles;
\* nothing obliges the user to type anything
SpecLoginLive ==
  /\ InitLogin /\ [][NextLogin]_vars
  /\ WF_vars(PollTimerFires)
  /\ \A kind \in PollKinds : WF_vars(\E out \in PollOutcomes : PollResult(kind, out))

\* C34 (as claimed): while the login is pending with a device code, a
\* background poll in flight is followed by another one unless it brought the
\* token: it leads to a state where the login is no longer pending with that
\* code or where the next poll is scheduled.
C34_PollingContinues ==
  (loginStatus = "pending" /\ deviceCode # "" /\ "timer" \in polls /\ ~pollingTimer)
    ~> (loginStatus # "pending" \/ deviceCode = "" \/ pollingTimer)

\* ---- handleCommand: the conversation-reset commands --------------------------
\* the text after the slash, split at white space
CommandInputs ==
  { <<"app">>, <<"app", "clear">>, <<"app", "set">>, <<"app", "set", "app1">>,
    <<"app", "create">>, <<"app", "create", "n">>,
    <<"mode">>, <<"mode", "chat">>, <<"mode", "builder">>,
    <<"link">>, <<"link", "app1">>, <<"link", "create">>, <<"link", "create", "n">>,
    <<"help">> }

\* rest[i], undefined when missing
Word(ws, i) == IF i <= Len(ws) THEN ws[i] ELSE ""

Rejected(line) == [kind |-> "rejected", appId |-> "keep", mode |-> "keep", line |-> line]
Resets(app, mode, line) == [kind |-> "reset", appId |-> app, mode |-> mode, line |-> line]
Creates(line) == [kind |-> "create", appId |-> "keep", mode |-> "keep", line |-> line]
Prints(line) == [kind |-> "print", appId |-> "keep", mode |-> "keep", line |-> line]

\* `if (this.chatMode === nextMode)` left out
SameMode_Ignored(cur, nextMode) == FALSE
SameMode(cur, nextMode) == cur = nextMode

\* handleCommand up to its first await: ws = [command, ...rest]
handleCommand(ws, tok, mode) ==
  LET command == Word(ws, 1)
      rest == Tail(ws)
      sub == Word(rest, 1)
  IN
  IF command = "app" /\ sub = "clear" THEN Resets("null", "keep", "app cleared")
  ELSE IF command = "app" /\ sub = "set"
  THEN IF Word(rest, 2) = "" THEN Rejected("usage: /app set")
       ELSE Resets(Word(rest, 2), "keep", "app set")
  ELSE IF command = "app" /\ sub = "create"
  THEN IF Word(rest, 2) = "" THEN Rejected("usage: /app create")
       ELSE IF ~tok THEN Rejected("login required to create app")
       ELSE Creates("app created")
  ELSE IF command = "mode"
  THEN IF sub \notin {"builder", "chat"} THEN Rejected("usage: /mode")
       ELSE LET nextMode == IF sub = "chat" THEN "general" ELSE "builder" IN
            IF SameMode(mode, nextMode) THEN Rejected("mode already")
            ELSE Resets("keep", nextMode, "mode set")
  ELSE IF command = "link"
  THEN IF ~tok THEN Rejected("login required to link app")
       ELSE IF sub = "create"
       THEN IF Word(rest, 2) = "" THEN Rejected("usage: /link create")
            ELSE Creates("app linked")
       ELSE IF sub = "" THEN Rejected("usage: /link")
       ELSE Resets(sub, "keep", "app linked")
  ELSE IF command = "help" THEN Prints("Commands:")
  ELSE Prints("Unknown command")

CmdFrame ==
  /\ UNCHANGED <<executionMode, tokenReady, streamingText, stack, started, delivered>>
  /\ UNCHANGED <<decVars, toolVars, loginVars, chainVars, ipcVars, mgrVars,
                 deployVars, cacheVars, shareVars, cbVars>>

\* handleInput(text) with a text that starts with a slash, up to the first
\* await of handleCommand: a reset assigns appId or chatMode, conversationId and
\* items, and persistConfig merges its overrides into this.config
Command(ws) ==
  /\ cmdPc = "idle"
  /\ cmdWords' = ws
  /\ cmdTick' = ~cmdTick
  /\ lastEvent' = NoEvent
  /\ \E r \in {handleCommand(ws, token, chatMode)} :
       /\ lineOut' = IF r.kind = "create" \/ r.line = "mode set" THEN <<>>
                      ELSE <<Line(r.line, <<>>)>>
       /\ IF r.kind = "reset"
          THEN /\ appId' = IF r.appId = "keep" THEN appId ELSE r.appId
               /\ chatMode' = IF r.mode = "keep" THEN chatMode ELSE r.mode
               /\ conversationId' = "null"
               /\ items' = <<>>
               /\ cfgConversationId' = "null"
               /\ cmdPc' = "persist"
               /\ resetAt' = started
          ELSE /\ UNCHANGED <<appId, chatMode, conversationId, items, cfgConversationId,
                              resetAt>>
               /\ cmdPc' = IF r.kind = "create" THEN "create" ELSE "idle"
  /\ CmdFrame

\* createLocalProject settles: the app id of the new project, then the same
\* reset; or it throws and handleCommand rejects
CreateSettles(ok) ==
  /\ cmdPc = "create"
  /\ lastEvent' = NoEvent
  /\ IF ok
     THEN /\ appId' = "app2"
          /\ conversationId' = "null"
          /\ items' = <<>>
          /\ cfgConversationId' = "null"
          /\ lineOut' = <<Line("app created", <<>>)>>
          /\ cmdPc' = "persist"
          /\ resetAt' = started
     ELSE /\ UNCHANGED <<appId, conversationId, items, cfgConversationId, resetAt>>
          /\ lineOut' = <<>>
          /\ cmdPc' = "idle"
  /\ UNCHANGED <<chatMode, cmdWords, cmdTick>>
  /\ CmdFrame

\* saveConfig settles: emitState (the line of /mode is printed here), return
PersistDone ==
  /\ cmdPc = "persist"
  /\ cmdPc' = "idle"
  /\ lineOut' = IF Word(cmdWords, 1) = "mode" THEN <<Line("mode set", <<>>)>> ELSE <<>>
  /\ lastEvent' = NoEvent
  /\ UNCHANGED <<items, conversationId, appId, chatMode, cfgConversationId,
                 cmdWords, cmdTick, resetAt>>
  /\ CmdFrame

\* One user turn and any number of commands: child.ts does not await
\* handleInput, so a command runs between any two steps of the turn.  The
\* worker starts in local mode with an app and a conversation.
InitReset ==
  /\ InitSession
  /\ executionMode = "local" /\ appId = "app0" /\ conversationId = "c0"

NextReset ==
  \/ Input(1)
  \/ Submit(1)
  \/ RequestOk(1)
  \/ ConversationIdEvent(1, "c1")
  \/ \E b \in {<<"TC">>, <<"AM">>} : ItemsEvent(1, b)
  \/ HandleItem(1)
  \/ ToolDone(1, TRUE)
  \/ StreamEnd(1)
  \/ \E ws \in CommandInputs : Command(ws)
  \/ \E ok \in BOOLEAN : CreateSettles(ok)
  \/ PersistDone

SpecReset == InitReset /\ [][NextReset]_vars

\* C35 (as claimed): once a reset command has completed and no turn was
\* submitted after it, the items and the conversationId hold nothing: whatever
\* they held would come from the response to a turn submitted before the reset.
C35_NothingFromBeforeReset ==
  (cmdPc = "idle" /\ resetAt >= 0 /\ resetAt = started) =>
    (items = <<>> /\ conversationId = "null")

\* The commands around one turn whose response holds a conversation id and
\* assistant messages and asks for no tool.
NextCommands ==
  \/ Input(1)
  \/ Submit(1)
  \/ RequestOk(1)
  \/ ConversationIdEvent(1, "c1")
  \/ ItemsEvent(1, <<"AM">>)
  \/ HandleItem(1)
  \/ StreamEnd(1)
  \/ \E ws \in CommandInputs : Command(ws)
  \/ \E ok \in BOOLEAN : CreateSettles(ok)
  \/ PersistDone

SpecCommands == InitReset /\ [][NextCommands]_vars

\* the forms of the reset commands the claim names
ResetForms ==
  { <<"app", "clear">>, <<"app", "set", "app1">>, <<"app", "create", "n">>,
    <<"mode", "chat">>, <<"mode", "builder">>, <<"link", "app1">>,
    <<"link", "create", "n">> }

\* missing argument, same mode, missing login
RejectedForm(ws) ==
  \/ ws \in { <<"app", "set">>, <<"app", "create">>, <<"mode">>, <<"link">>,
              <<"link", "create">> }
  \/ ws = <<"mode", "chat">> /\ chatMode = "general"
  \/ ws = <<"mode", "builder">> /\ chatMode = "builder"
  \/ ws \in { <<"app", "create", "n">>, <<"link", "app1">>, <<"link", "create", "n">> }
       /\ ~token

\* the reset forms that need no project to be created first
ImmediateForm(ws) ==
  ws \in { <<"app", "clear">>, <<"app", "set", "app1">>, <<"mode", "chat">>,
           <<"mode", "builder">>, <<"link", "app1">> }

\* C40: the steps of a reset command: a rejected form changes none of
\* conversationId, appId, mode and items and ends the command; a form that
\* succeeds sets conversationId to null and empties the items, at once or when
\* the project was created; the rest of the command changes none of the four.
C40_ResetCommandEffect ==
  [][/\ (cmdTick' # cmdTick /\ RejectedForm(cmdWords') =>
           /\ UNCHANGED <<conversationId, appId, chatMode, items>>
           /\ cmdPc' = "idle")
     /\ (cmdTick' # cmdTick /\ ImmediateForm(cmdWords') /\ ~RejectedForm(cmdWords') =>
           /\ conversationId' = "null" /\ items' = <<>>
           /\ cmdPc' = "persist")
     /\ (cmdTick' # cmdTick /\ cmdWords' \in ResetForms /\ ~ImmediateForm(cmdWords')
           /\ ~RejectedForm(cmdWords') =>
           /\ UNCHANGED <<conversationId, appId, chatMode, items>>
           /\ cmdPc' = "create")
     /\ (cmdPc = "create" /\ cmdPc' = "persist" =>
           conversationId' = "null" /\ items' = <<>>)
     /\ (cmdPc = "create" /\ cmdPc' = "idle" =>
           UNCHANGED <<conversationId, appId, chatMode, items>>)
     /\ (cmdPc = "persist" /\ cmdPc' = "idle" =>
           UNCHANGED <<conversationId, appId, chatMode, items>>)
  ]_vars

\* C40 witness: /mode chat went through after a turn had been answered with a
\* conversation id, and nothing arrived since
C40_Witness ==
  /\ cmdWords = <<"mode", "chat">> /\ cmdPc = "idle" /\ resetAt = 1
  /\ chatMode = "general"
  /\ delivered >= 1 /\ ~Running(1)
  /\ conversationId = "null" /\ items = <<>>

\* ---- two worker processes and the one config file ---------------------------
\* the overrides ChatWorker passes to persistConfig
Overrides ==
  { [token |-> "t", deviceCode |-> "null"],
    [deviceCode |-> "dc"],
    [conversationId |-> "c1"],
    [appId |-> "app1", conversationId |-> "null"] }

\* { ...this.config, ...overrides }
Merge(cfg, ov) == [g \in ConfigKeys |-> IF g \in DOMAIN ov THEN ov[g] ELSE cfg[g]]

\* saveConfig's payload: the entries of next that are neither undefined nor null
saveConfig(next) ==
  [g \in ConfigKeys |-> IF next[g] \in {"undef", "null"} THEN "undef" ELSE next[g]]

\* saveGlobalConfig's payload: current, with the defined entries of next put
\* in and its null entries deleted
saveGlobalConfig(cur, next) ==
  [g \in ConfigKeys |-> IF next[g] = "undef" THEN cur[g]
                        ELSE IF next[g] = "null" THEN "undef" ELSE next[g]]

Written(w) == [g \in ConfigKeys |-> IF g \in wOver[w] THEN w ELSE cfgWriter[g]]

ShareFrame ==
  UNCHANGED <<decVars, workerVars, toolVars, loginVars, chainVars, ipcVars, mgrVars,
              deployVars, cacheVars, cmdVars, cbVars>>

InitShare ==
  /\ InitDecoderIdle /\ InitWorkerIdle /\ InitToolsIdle
  /\ InitLoginIdle /\ InitChainIdle /\ InitIpcIdle /\ InitMgrIdle
  /\ InitDeployIdle /\ InitCacheIdle /\ InitCmdIdle /\ InitCbIdle
  /\ cfgFile \in { EmptyConfig, [EmptyConfig EXCEPT !["appId"] = "app0"] }
  /\ wMem = [w \in Workers |-> EmptyConfig]
  /\ wPc = [w \in Workers |-> "off"]
  /\ wOver = [w \in Workers |-> {}]
  /\ wRead = [w \in Workers |-> EmptyConfig]
  /\ cfgWriter = [g \in ConfigKeys |-> "none"]

\* child.ts main: config = await loadConfig(); new ChatWorker(baseUrl, config, ...)
WorkerStarts(w) ==
  /\ wPc[w] = "off"
  /\ wMem' = [wMem EXCEPT ![w] = cfgFile]
  /\ wPc' = [wPc EXCEPT ![w] = "idle"]
  /\ UNCHANGED <<cfgFile, wOver, wRead, cfgWriter>>
  /\ ShareFrame

\* persistConfig(overrides) up to the await of saveConfig
PersistCall(w, ov) ==
  /\ wPc[w] = "idle"
  /\ wMem' = [wMem EXCEPT ![w] = Merge(@, ov)]
  /\ wOver' = [wOver EXCEPT ![w] = DOMAIN ov]
  /\ wPc' = [wPc EXCEPT ![w] = "save"]
  /\ UNCHANGED <<cfgFile, wRead, cfgWriter>>
  /\ ShareFrame

\* saveConfig(this.config) writes the file; then saveGlobalConfig is called
\* when the overrides held a token or a device code
SaveConfigWrites(w) ==
  /\ wPc[w] = "save"
  /\ cfgFile' = saveConfig(wMem[w])
  /\ cfgWriter' = Written(w)
  /\ wPc' = [wPc EXCEPT ![w] =
       IF \E g \in wOver[w] \cap {"token", "deviceCode"} : wMem[w][g] \notin {"undef", "null"}
       THEN "load" ELSE "idle"]
  /\ UNCHANGED <<wMem, wOver, wRead>>
  /\ ShareFrame

\* saveGlobalConfig: current = await loadGlobalConfig()
GlobalLoads(w) ==
  /\ wPc[w] = "load"
  /\ wRead' = [wRead EXCEPT ![w] = cfgFile]
  /\ wPc' = [wPc EXCEPT ![w] = "write"]
  /\ UNCHANGED <<cfgFile, wMem, wOver, cfgWriter>>
  /\ ShareFrame

\* saveGlobalConfig: the merged payload is written
GlobalWrites(w) ==
  /\ wPc[w] = "write"
  /\ cfgFile' = saveGlobalConfig(wRead[w], wMem[w])
  /\ cfgWriter' = Written(w)
  /\ wPc' = [wPc EXCEPT ![w] = "idle"]
  /\ wRead' = [wRead EXCEPT ![w] = EmptyConfig]
  /\ UNCHANGED <<wMem, wOver>>
  /\ ShareFrame

NextShare ==
  \/ \E w \in Workers : WorkerStarts(w)
  \/ \E w \in Workers, ov \in Overrides : PersistCall(w, ov)
  \/ \E w \in Workers : SaveConfigWrites(w)
  \/ \E w \in Workers : GlobalLoads(w)
  \/ \E w \in Workers : GlobalWrites(w)

SpecShare == InitShare /\ [][NextShare]_vars

\* C36 (as claimed): when a worker writes the config file for a persist, every
\* key that persist does not concern and whose value the other worker persisted
\* keeps its value in the file.
C36_NoLostUpdate ==
  [][\A w \in Workers :
       (wPc[w] \in {"save", "write"} /\ wPc'[w] # wPc[w]) =>
         \A g \in ConfigKeys \ wOver[w] :
           cfgWriter[g] \notin {"none", w} => cfgFile'[g] = cfgFile[g]]_vars

\* C37 (as claimed): a register message binds the socket to its tab and makes
\* that tab the active one only when no tab is active; with a tab active the
\* active tab stays.
C37_RegisterKeepsActiveTab ==
  [][\A t \in running \ childSockets :
       childSockets' = childSockets \cup {t} =>
         activeTabId' = IF activeTabId = NoTab THEN t ELSE activeTabId]_vars

\* ---- the ReadSet across tool calls and session commands ---------------------
\* The sandbox of a worker whose workspace holds every file the model follows,
\* with the reset commands a worker without a login accepts.
InitReadSet ==
  /\ InitTools
  /\ files = [p \in AbsFiles |-> <<"61">>]
  /\ dirs = {<<"w", "d">>}
  /\ manifestTools = KnownTools \cup {"rm"}

\* the calls followed once the manifest has settled
ReadSetCalls ==
  { ToolCall("read_file", p, <<>>, <<>>) : p \in {<<>>, <<"f">>, <<"d", "f">>, <<"..", "x">>} }
  \cup { ToolCall("write_file", <<"f">>, <<"a">>, <<>>),
          ToolCall("apply_patch", <<>>, <<>>, <<Section("modify", <<"f">>, <<>>)>>) }
  \cup { ToolCall(n, <<>>, <<>>, <<>>) : n \in {"list_files", "grep", "deploy"} }

NextReadSet ==
  \/ \E call \in FirstCalls : StartCall("t1", call)
  \/ \E ok \in BOOLEAN : ManifestSettles(ok)
  \/ \E env \in EnvsOf(waiting["t1"]) : FinishCall("t1", env)
  \/ \E call \in ReadSetCalls : \E env \in EnvsOf(call) : DirectCall(call, env)
  \/ \E ws \in {<<"app", "clear">>, <<"app", "set", "app1">>, <<"mode", "chat">>} : Command(ws)
  \/ PersistDone

SpecReadSet == InitReadSet /\ [][NextReadSet]_vars

\* C38: the ReadSet changes in one way only: a read_file call that succeeded
\* adds the absolute path its argument resolves to.  Every other tool call,
\* every failed call and every session command leaves it as it was.
C38_ReadSetOnlyGrowsByRead ==
  [][/\ (readSet' # readSet =>
           /\ lastCall'.name = "read_file" /\ result'.ok
           /\ ~resolvePath(Root, lastCall'.path).thrown
           /\ readSet' = readSet \cup {resolvePath(Root, lastCall'.path).value})
     /\ (lastCall'.name = "read_file" /\ result'.ok =>
           resolvePath(Root, lastCall'.path).value \in readSet')
     /\ (cmdPc' # cmdPc \/ cmdTick' # cmdTick => readSet' = readSet)]_vars

\* C38 witness: /w/f was read, then the conversation was reset, then a write of
\* /w/f went through on the mark the reset had left in place
C38_Witness ==
  /\ readSet = {<<"w", "f">>}
  /\ resetAt = 0 /\ cmdPc = "idle"
  /\ lastCall.name = "write_file" /\ result.ok
  /\ written[<<"w", "f">>] # NoWrite

\* ---- consumeStream with an items callback that can throw --------------------
\* the body of the `2` branch when onItems throws or rejects: what was fired
\* before stays fired, the error leaves the try block
ItemsThrow(r) == Res(r.ev, TRUE, <<"callback">>, FALSE)

HasItems(line) ==
  /\ StartsWith(line, "2") /\ Payload(line) # <<>>
  /\ \E i \in 1..Len(Handle2Body(Payload(line)).ev) :
       Handle2Body(Payload(line)).ev[i].kind = "items"

\* the same branch without its catch
Handle2ItemsThrow_NoCatch(payload) == ItemsThrow(Handle2Body(payload))
\* the `2` branch around a throwing onItems: the catch, then stopIfNeeded()
Handle2ItemsThrow(payload) == Swallow(ItemsThrow(Handle2Body(payload)), TRUE)

\* one run of the loop body on a `2` line with items whose callback throws
HandleLineItemsThrow ==
  /\ status = "reading" /\ lines # <<>>
  /\ HasItems(Head(lines))
  /\ LET r == Handle2ItemsThrow(Payload(Head(lines)))
         stop == r.poll /\ stopRequested
     IN /\ events' = Fired(events, r.ev, stop)
        /\ status' = IF r.thrown THEN "failed" ELSE IF stop THEN "stopped" ELSE "reading"
        /\ error' = IF r.thrown THEN r.msg ELSE error
        /\ cancelled' = (cancelled \/ stop)
  /\ handled' = Append(handled, Head(lines))
  /\ lines' = Tail(lines)
  /\ cbErrors' = cbErrors \cup {Len(handled) + 1}
  /\ UNCHANGED <<stream, hasBody, pos, decPend, remainder, stopRequested, splitMid>>
  /\ UNCHANGED <<workerVars, toolVars, loginVars, chainVars, ipcVars, mgrVars,
                 deployVars, cacheVars, cmdVars, shareVars>>

NextConsumer == NextStream \/ HandleLineItemsThrow

SpecConsumer == InitStream /\ [][NextConsumer]_vars

\* C39: when the items callback throws while a `2` line is handled, the
\* decoder goes on: it does not fail, stores and reports no error, has made
\* exactly the calls of that line, and turns to the next line; a failure of
\* consumeStream never comes from such a line.
C39_CallbackErrorSwallowed ==
  [][/\ (cbErrors' # cbErrors =>
           /\ status' = "reading" /\ error' = error
           /\ events' = events \o Handle2Body(Payload(Head(lines))).ev
           /\ Last(events').kind = "items"
           /\ lines' = Tail(lines))
     /\ (status' = "failed" /\ handled' # <<>> => Len(handled') \notin cbErrors')]_vars

\* C39 witness: the callback threw at the first line, the second line was
\* decoded and delivered, and the stream ended normally
C39_Witness ==
  /\ cbErrors = {1} /\ Len(handled) = 2 /\ status = "done" /\ error = <<>>
  /\ Len(events) >= 2 /\ Last(events).kind = "text"

============================================================================
